---- MODULE Spec2Model ----
(***************************************************************************)
(* Search-parameter compiler (packages/core/src/search/details.ts), token   *)
(* table (server, fhir/lookups/token.ts) and database set-up with its      *)
(* migrations (packages/server/src/database.ts) of medplum.                *)
(*                                                                         *)
(* Strings are sequences of tokens: a code "address-city" is               *)
(* <<"address", "-", "city">>, the text of an atom is the sequence of its  *)
(* names and punctuation.  startsWith / endsWith / split / join work on    *)
(* these sequences.                                                        *)
(***************************************************************************)
EXTENDS Integers, Sequences, FiniteSets, TLC

VARIABLES
    cache,      \* globalSchema.types[rt].searchParamsDetails: set of [rt, code, plan]
    call,       \* the last getSearchParameterDetails call and what it returned
    first,      \* a watched call of getSearchParameterDetails, and whether it was repeated
    cIn,        \* compiler input  [rt, param]
    cOut,       \* compiler output [done, ok, builder, plan]
    wIn,        \* condition builder input  [rt, param, filter]
    wOut,       \* condition builder output [done, ok, expr]
    tIn,        \* the resource that is indexed
    tOut,       \* the result array of the token extractor [done, ok, calls, tokens]
    db,         \* the database: the row of DatabaseMigration and the advisory lock
    proc        \* the server processes: where each is in initDatabase, and its variables

vars == <<cache, call, first, cIn, cOut, wIn, wOut, tIn, tOut, db, proc>>

----------------------------------------------------------------------------
(* Bounds *)

\* steps after the resource type in a generated clause
MaxSteps == 3

\* tokens of a filter value
MaxValueLen == 3

\* values of the indexed resource
MaxValues == 2

\* calls of buildTokensForSearchParameter on one result array
MaxCalls == 2

\* the greatest number of entries in the token column of the resource that is sorted
MaxEntries == 2

\* callers of getSearchParameterDetails that race
MaxCallers == 2

\* the schema migrations of the server
MaxSchemaVersion == 2

\* the data migrations of the server
MaxDataVersion == 2

----------------------------------------------------------------------------
(* Sequence helpers *)

StartsWith(s, p) == Len(s) >= Len(p) /\ SubSeq(s, 1, Len(p)) = p

EndsWith(s, p) == Len(s) >= Len(p) /\ SubSeq(s, Len(s) - Len(p) + 1, Len(s)) = p

RECURSIVE Join(_, _)
Join(ss, sep) ==
    IF ss = <<>> THEN <<>>
    ELSE IF Len(ss) = 1 THEN ss[1]
         ELSE ss[1] \o sep \o Join(Tail(ss), sep)

RECURSIVE Flat(_)
Flat(ss) == IF ss = <<>> THEN <<>> ELSE ss[1] \o Flat(Tail(ss))

\* s.split(sep) for a one-token separator: the pieces between the separators
RECURSIVE SplitOn(_, _)
SplitOn(s, sep) ==
    IF \A i \in 1..Len(s) : s[i] # sep THEN <<s>>
    ELSE LET i == CHOOSE j \in 1..Len(s) : s[j] = sep /\ \A h \in 1..(j-1) : s[h] # sep
         IN  <<SubSeq(s, 1, i - 1)>> \o SplitOn(SubSeq(s, i + 1, Len(s)), sep)

Range(s) == {s[i] : i \in 1..Len(s)}

\* the element of a one-element set; { F(x) : x \in {e} } evaluates e once
Only(S) == CHOOSE x \in S : TRUE

----------------------------------------------------------------------------
(* FHIRPath atoms (the parsed expression tree) *)

Sym(n)        == [k |-> "Symbol", name |-> n]
Dot(l, r)     == [k |-> "Dot", left |-> l, right |-> r]
AsAtom(l, t)  == [k |-> "As", left |-> l, right |-> Sym(t)]
IsAtom(l, t)  == [k |-> "Is", left |-> l, right |-> Sym(t)]
Idx(l)        == [k |-> "Indexer", left |-> l]
Fn(n, a)      == [k |-> "Function", name |-> n, args |-> a]
UnionAtom(l, r) == [k |-> "Union", left |-> l, right |-> r]
Infix(op, l, r) == [k |-> "BooleanInfix", op |-> op, left |-> l, right |-> r]

\* Atom.toString()
RECURSIVE AtomToString(_)
AtomToString(a) ==
    CASE a.k = "Symbol"   -> <<a.name>>
      [] a.k = "Dot"      -> AtomToString(a.left) \o <<".">> \o AtomToString(a.right)
      [] a.k = "As"       -> AtomToString(a.left) \o <<" as ">> \o AtomToString(a.right)
      [] a.k = "Is"       -> AtomToString(a.left) \o <<" is ">> \o AtomToString(a.right)
      [] a.k = "Indexer"  -> AtomToString(a.left) \o <<"[", "0", "]">>
      [] a.k = "Function" -> <<a.name, "(">>
                               \o Join([i \in 1..Len(a.args) |-> AtomToString(a.args[i])], <<", ">>)
                               \o <<")">>
      [] a.k = "Union"    -> AtomToString(a.left) \o <<" | ">> \o AtomToString(a.right)
      [] a.k = "BooleanInfix" ->
             AtomToString(a.left) \o <<" ", a.op, " ">> \o AtomToString(a.right)

\* the atom of one step applied to the atom before it
StepAtom(atom, step) ==
    CASE step[1] = "prop"  -> Dot(atom, Sym(step[2]))
      [] step[1] = "idx"   -> Idx(atom)
      [] step[1] = "as"    -> AsAtom(atom, step[2])
      [] step[1] = "fn"    -> Dot(atom, Fn(step[2], <<Sym(step[3])>>))
      [] step[1] = "fn0"   -> Dot(atom, Fn(step[2], <<>>))
      [] step[1] = "whereIs" ->
             Dot(atom, Fn("where", <<IsAtom(Fn("resolve", <<>>), step[2])>>))
      [] step[1] = "whereEq" ->
             Dot(atom, Fn("where", <<Infix("=", Sym("url"), Sym("'u'"))>>))
      [] step[1] = "exists-and" ->
             Infix("and", Dot(atom, Fn("exists", <<>>)), Infix("!=", atom, Sym("false")))

RECURSIVE ClauseAtom(_, _)
ClauseAtom(atom, steps) ==
    IF steps = <<>> THEN atom ELSE ClauseAtom(StepAtom(atom, steps[1]), Tail(steps))

\* parseFhirPath(expression).child
RECURSIVE parseFhirPath(_)
parseFhirPath(expression) ==
    IF Len(expression) = 1
    THEN ClauseAtom(Sym(expression[1].rt), expression[1].steps)
    ELSE UnionAtom(parseFhirPath(SubSeq(expression, 1, Len(expression) - 1)),
                   ClauseAtom(Sym(expression[Len(expression)].rt),
                              expression[Len(expression)].steps))

----------------------------------------------------------------------------
(* The structural schema (globalSchema): type -> property -> element *)

Elem(path, isArray, types) == [path |-> path, isArray |-> isArray, type |-> types]

Schema ==
    [ Patient |->
        [ name       |-> Elem("Patient.name", TRUE, <<"HumanName">>),
          telecom    |-> Elem("Patient.telecom", TRUE, <<"ContactPoint">>),
          active     |-> Elem("Patient.active", FALSE, <<"boolean">>),
          birthDate  |-> Elem("Patient.birthDate", FALSE, <<"date">>),
          identifier |-> Elem("Patient.identifier", TRUE, <<"Identifier">>),
          extension  |-> Elem("Patient.extension", TRUE, <<"Extension">>),
          generalPractitioner |->
                         Elem("Patient.generalPractitioner", TRUE, <<"Reference">>) ],
      Observation |->
        [ code       |-> Elem("Observation.code", FALSE, <<"CodeableConcept">>),
          category   |-> Elem("Observation.category", TRUE, <<"CodeableConcept">>),
          value      |-> Elem("Observation.value[x]", FALSE,
                              <<"Quantity", "CodeableConcept", "boolean">>),
          component  |-> Elem("Observation.component", TRUE, <<"ObservationComponent">>),
          effective  |-> Elem("Observation.effective[x]", FALSE, <<"dateTime", "Period">>),
          instantiates |-> Elem("Observation.instantiates[x]", FALSE,
                              <<"canonical", "Reference">>) ],
      ObservationComponent |->
        [ code       |-> Elem("Observation.component.code", FALSE, <<"CodeableConcept">>) ],
      Extension |->
        [ value         |-> Elem("Extension.value[x]", FALSE, <<"dateTime", "Coding">>),
          valueDateTime |-> Elem("Extension.value[x]", FALSE, <<"dateTime", "Coding">>) ],
      CodeableConcept |->
        [ coding     |-> Elem("CodeableConcept.coding", TRUE, <<"Coding">>),
          text       |-> Elem("CodeableConcept.text", FALSE, <<"string">>) ],
      Coding |->
        [ code       |-> Elem("Coding.code", FALSE, <<"code">>) ],
      HumanName |->
        [ given      |-> Elem("HumanName.given", TRUE, <<"string">>) ],
      Reference |->
        [ identifier |-> Elem("Reference.identifier", FALSE, <<"Identifier">>) ] ]

Undefined == [k |-> "undefined"]

\* getElementDefinition(typeName, propertyName)
getElementDefinition(baseType, propertyName) ==
    IF baseType \in DOMAIN Schema /\ propertyName \in DOMAIN Schema[baseType]
    THEN Schema[baseType][propertyName]
    ELSE Undefined

ResourceTypes == {"Patient", "Observation"}

----------------------------------------------------------------------------
(* details.ts: the compiler *)

PropertyTypeTokens == {"Identifier", "CodeableConcept", "Coding", "ContactPoint"}

NewBuilder == [elementDefinitions |-> <<>>, propertyTypes |-> {}, array |-> FALSE,
               error |-> "none"]

Throw(details, msg) == [details EXCEPT !.error = msg]

AddPropertyType(details, t) == [details EXCEPT !.propertyTypes = @ \cup {t}]

\* handleFunctionAtom(builder, functionAtom)
handleFunctionAtom(builder, functionAtom) ==
    IF functionAtom.name \in {"as", "ofType"}
    THEN IF Len(functionAtom.args) = 0
         THEN Throw(builder, "TypeError")
         ELSE AddPropertyType(builder, AtomToString(functionAtom.args[1]))
    ELSE IF functionAtom.name = "resolve"
    THEN AddPropertyType(builder, <<"string">>)
    ELSE IF functionAtom.name = "where" /\ Len(functionAtom.args) > 0
            /\ functionAtom.args[1].k = "Is"
    THEN AddPropertyType(builder, AtomToString(functionAtom.args[1].right))
    ELSE Throw(builder, "Unhandled FHIRPath function")

isBackboneElement(propertyType) == propertyType \in {"Element", "BackboneElement"}

\* the test of line 240
\* the array mark without its test of the index
marksArray_IgnoringIndex(elementDefinition, hasArrayIndex) == elementDefinition.isArray

marksArray(elementDefinition, hasArrayIndex) == elementDefinition.isArray /\ ~hasArrayIndex

RECURSIVE crawl(_, _, _, _)
RECURSIVE crawlEachType(_, _, _, _, _)

\* the loop over elementDefinition.type of lines 257-263, from its i-th type on
crawlTypes(details, atoms, elementDefinition, i, nextIndex) ==
    IF details.error # "none" \/ i > Len(elementDefinition.type) THEN details
    ELSE LET code == elementDefinition.type[i]
             propertyType == IF isBackboneElement(code) THEN elementDefinition.type[1]
                             ELSE code
         IN  crawlEachType(crawl(details, atoms, propertyType, nextIndex),
                           atoms, elementDefinition, i + 1, nextIndex)

\* crawlSearchParameterDetails(details, atoms, baseType, index); index is 1-based here
crawlSearchParameterDetails(details, atoms, baseType, index) ==
    IF details.error # "none" THEN details
    ELSE IF index > Len(atoms) THEN Throw(details, "TypeError")
    ELSE
    LET currAtom == atoms[index] IN
    IF currAtom.k = "As"
    THEN AddPropertyType(details, AtomToString(currAtom.right))
    ELSE IF currAtom.k = "Function"
    THEN handleFunctionAtom(details, currAtom)
    ELSE
    LET propertyName == AtomToString(currAtom)
        elementDefinition ==
            IF Len(propertyName) = 1 THEN getElementDefinition(baseType, propertyName[1])
            ELSE Undefined
    IN
    IF elementDefinition = Undefined
    THEN Throw(details, "Element definition not found")
    ELSE
    LET hasArrayIndex == index + 1 <= Len(atoms) /\ atoms[index + 1].k = "Indexer"
        nextIndex == IF hasArrayIndex THEN index + 2 ELSE index + 1
        d1 == IF marksArray(elementDefinition, hasArrayIndex)
              THEN [details EXCEPT !.array = TRUE] ELSE details
    IN
    IF nextIndex > Len(atoms)
    THEN [d1 EXCEPT !.elementDefinitions = Append(@, elementDefinition),
                    !.propertyTypes =
                        @ \cup {<<elementDefinition.type[i]>> :
                                    i \in 1..Len(elementDefinition.type)}]
    ELSE crawlEachType(d1, atoms, elementDefinition, 1, nextIndex)

\* the two above, called with their arguments evaluated
crawl(details, atoms, baseType, index) ==
    Only({ crawlSearchParameterDetails(d, atoms, baseType, index) : d \in {details} })

crawlEachType(details, atoms, elementDefinition, i, nextIndex) ==
    Only({ crawlTypes(d, atoms, e, i, nextIndex) : d \in {details}, e \in {elementDefinition} })

\* flattenAtom(atom)
RECURSIVE flattenAtom(_)
flattenAtom(atom) ==
    IF atom.k \in {"As", "Indexer"} THEN flattenAtom(atom.left) \o <<atom>>
    ELSE IF atom.k \in {"BooleanInfix", "Is"} THEN <<atom>>
    ELSE IF atom.k = "Dot" THEN flattenAtom(atom.left) \o flattenAtom(atom.right)
    ELSE IF atom.k = "Function"
            /\ \/ atom.name = "where" /\ ~(Len(atom.args) > 0 /\ atom.args[1].k = "Is")
               \/ atom.name = "last"
    THEN <<>>
    ELSE <<atom>>

\* buildExpressionsForResourceType(resourceType, atom, result)
RECURSIVE buildExpressionsForResourceType(_, _, _)
buildExpressionsForResourceType(resourceType, atom, result) ==
    IF atom.k = "Union"
    THEN buildExpressionsForResourceType(resourceType, atom.right,
             buildExpressionsForResourceType(resourceType, atom.left, result))
    ELSE IF StartsWith(AtomToString(atom), <<resourceType, ".">>)
         THEN Append(result, atom)
         ELSE result

\* getExpressionsForResourceType(resourceType, expression); the expression is parsed
getExpressionsForResourceType(resourceType, expression) ==
    buildExpressionsForResourceType(resourceType, parseFhirPath(expression), <<>>)

flattenedExpression(atomArray) ==
    Join([i \in 1..Len(atomArray) |-> AtomToString(atomArray[i])], <<".">>)

\* one pass of the loop of lines 89-117, on the atoms of one expression
buildOneExpression(builder, atomArray, resourceType) ==
    LET fe == flattenedExpression(atomArray)
        b1 == IF Len(atomArray) = 1 /\ atomArray[1].k \in {"BooleanInfix", "Is"}
              THEN AddPropertyType(builder, <<"boolean">>)
              ELSE IF \/ EndsWith(fe, <<"extension", ".", "value", ".", "code">>)
                      \/ EndsWith(fe, <<"extension", ".", "value", ".", "coding", ".", "code">>)
              THEN AddPropertyType([builder EXCEPT !.array = TRUE], <<"code">>)
              ELSE crawl(builder, atomArray, resourceType, 2)
    IN  IF b1.error = "none" /\ EndsWith(fe, <<"extension", ".", "valueDateTime">>)
        THEN [b1 EXCEPT !.array = FALSE]
        ELSE b1

\* the loop of lines 89-117 from the i-th expression on
RECURSIVE buildExpressions(_, _, _, _)
buildExpressions(builder, expressions, i, resourceType) ==
    IF builder.error # "none" \/ i > Len(expressions) THEN builder
    ELSE buildExpressions(
             Only({ buildOneExpression(b, a, resourceType) :
                       b \in {builder}, a \in {flattenAtom(expressions[i])} }),
             expressions, i + 1, resourceType)

\* isTokenParam(searchParam, builder)
isTokenParam(searchParam, builder) ==
    /\ searchParam.type = "token"
    /\ \/ EndsWith(searchParam.code, <<":identifier">>)
       \/ \E i \in 1..Len(builder.elementDefinitions) :
              Range(builder.elementDefinitions[i].type) \cap PropertyTypeTokens # {}

nameParams == {"individual-given", "individual-family", "Patient-name", "Person-name",
               "Practitioner-name", "RelatedPerson-name"}
telecomParams == {"individual-telecom", "individual-email", "individual-phone",
                  "OrganizationAffiliation-telecom", "OrganizationAffiliation-email",
                  "OrganizationAffiliation-phone"}
addressParams == {"individual-address", "InsurancePlan-address", "Location-address",
                  "Organization-address"}

\* isLookupTableParam without its test of the code prefix
isLookupTableParam_IdsOnly(searchParam, builder) ==
    \/ searchParam.id \in nameParams
    \/ searchParam.id \in telecomParams
    \/ searchParam.id \in addressParams

\* isLookupTableParam(searchParam, builder)
isLookupTableParam(searchParam, builder) ==
    \/ searchParam.id \in nameParams
    \/ searchParam.id \in telecomParams
    \/ searchParam.id \in addressParams
    \/ StartsWith(searchParam.code, <<"address", "-">>)

\* getSearchParameterType without the size test of its date case
getSearchParameterType_AnyDate(searchParam, propertyTypes) ==
    CASE searchParam.type = "date" ->
            IF <<"date">> \in propertyTypes THEN "DATE" ELSE "DATETIME"
      [] searchParam.type = "number" -> "NUMBER"
      [] searchParam.type = "quantity" -> "QUANTITY"
      [] searchParam.type = "reference" ->
            IF <<"canonical">> \in propertyTypes THEN "CANONICAL" ELSE "REFERENCE"
      [] searchParam.type = "token" ->
            IF Cardinality(propertyTypes) = 1 /\ <<"boolean">> \in propertyTypes
            THEN "BOOLEAN" ELSE "TEXT"
      [] OTHER -> "TEXT"

\* getSearchParameterType(searchParam, propertyTypes)
getSearchParameterType(searchParam, propertyTypes) ==
    CASE searchParam.type = "date" ->
            IF Cardinality(propertyTypes) = 1 /\ <<"date">> \in propertyTypes
            THEN "DATE" ELSE "DATETIME"
      [] searchParam.type = "number" -> "NUMBER"
      [] searchParam.type = "quantity" -> "QUANTITY"
      [] searchParam.type = "reference" ->
            IF <<"canonical">> \in propertyTypes THEN "CANONICAL" ELSE "REFERENCE"
      [] searchParam.type = "token" ->
            IF Cardinality(propertyTypes) = 1 /\ <<"boolean">> \in propertyTypes
            THEN "BOOLEAN" ELSE "TEXT"
      [] OTHER -> "TEXT"

\* capitalize(word) of utils, on the first token of a word
capitalize(word) ==
    IF word = <<>> THEN word
    ELSE <<CASE word[1] = "city" -> "City"
             [] word[1] = "use" -> "Use"
             [] word[1] = "concept" -> "Concept"
             [] word[1] = "date" -> "Date"
             [] OTHER -> word[1]>> \o Tail(word)

\* convertCodeToColumnName(code)
convertCodeToColumnName(code) ==
    LET words == SplitOn(code, "-")
    IN  Flat([i \in 1..Len(words) |-> IF i > 1 THEN capitalize(words[i]) ELSE words[i]])

implementationOf(searchParam, builder) ==
    IF isLookupTableParam(searchParam, builder) THEN "lookup-table"
    ELSE IF isTokenParam(searchParam, builder) THEN "token-columns"
    ELSE "column"

\* buildSearchParameterDetails(resourceType, searchParam) up to line 132: the builder
\* it ends with and the plan it returns, or the error it throws; line 133, the write
\* to the cache, is setSearchParameterDetails in the calling action
buildSearchParameterDetails(resourceType, searchParam) ==
    LET expressions == getExpressionsForResourceType(resourceType, searchParam.expression)
        result(builder) ==
            IF builder.error # "none"
            THEN [ok |-> FALSE, builder |-> builder, plan |-> Undefined]
            ELSE [ok |-> TRUE, builder |-> builder,
                  plan |-> [columnName |-> convertCodeToColumnName(searchParam.code),
                            type |-> getSearchParameterType(searchParam, builder.propertyTypes),
                            elementDefinitions |-> builder.elementDefinitions,
                            array |-> builder.array,
                            implementation |-> implementationOf(searchParam, builder)]]
    IN  Only({ result(buildExpressions(NewBuilder, e, 1, resourceType)) : e \in {expressions} })

\* setSearchParameterDetails starting a new map of the resource type at every write
setSearchParameterDetails_NewMap(c, resourceType, code, details) ==
    {e \in c : e.rt # resourceType}
        \cup {[rt |-> resourceType, code |-> code, plan |-> details]}

\* setSearchParameterDetails(resourceType, code, details)
setSearchParameterDetails(c, resourceType, code, details) ==
    {e \in c : ~(e.rt = resourceType /\ e.code = code)}
        \cup {[rt |-> resourceType, code |-> code, plan |-> details]}

\* the lookup of the cache by the code alone, whatever the resource type
cachedDetails_AnyResourceType(c, resourceType, code) ==
    IF \E e \in c : e.code = code
    THEN (CHOOSE e \in c : e.code = code).plan
    ELSE Undefined

\* globalSchema.types[resourceType]?.searchParamsDetails?.[code]
cachedDetails(c, resourceType, code) ==
    IF \E e \in c : e.rt = resourceType /\ e.code = code
    THEN (CHOOSE e \in c : e.rt = resourceType /\ e.code = code).plan
    ELSE Undefined

Thrown == [k |-> "thrown"]

IsDefined(x) == x # Undefined

IsPlan(r) == r \notin {Thrown, Undefined}

\* the plan buildSearchParameterDetails returns, or Thrown
compiled(resourceType, searchParam) ==
    Only({ IF r.ok THEN r.plan ELSE Thrown
             : r \in {buildSearchParameterDetails(resourceType, searchParam)} })

\* getSearchParameterDetails compiling and writing the plan at every call
getSearchParameterDetails_AlwaysCompiles(c, resourceType, searchParam) ==
    Only({ [result |-> result,
            cache |-> IF result # Thrown
                      THEN setSearchParameterDetails(c, resourceType, searchParam.code, result)
                      ELSE c,
            hit |-> FALSE]
             : result \in {compiled(resourceType, searchParam)} })

\* getSearchParameterDetails(resourceType, searchParam) on the cache c: what it returns,
\* the cache it leaves, and whether the plan came from the cache
getSearchParameterDetails(c, resourceType, searchParam) ==
    Only({ Only({ [result |-> result,
                   cache |-> IF found = Undefined /\ result # Thrown
                             THEN setSearchParameterDetails(c, resourceType, searchParam.code,
                                                            result)
                             ELSE c,
                   hit |-> found # Undefined]
                   : result \in {IF found # Undefined THEN found
                                 ELSE compiled(resourceType, searchParam)} })
             : found \in {cachedDetails(c, resourceType, searchParam.code)} })

----------------------------------------------------------------------------
(* Token conditions (token.ts).  USE_TOKEN_TABLE is false: the branches for  *)
(* the token table are never taken.  A string is a sequence of tokens.       *)

DELIM == "x01"
NULL_SYSTEM == "x02"
ARRAY_DELIM == "x03"

\* toLocaleLowerCase / toLowerCase of a token
LowerToken(t) ==
    CASE t = "B" -> "b"
      [] t = "TRUE" -> "true"
      [] t = "ABC" -> "abc"
      [] OTHER -> t

toLowerCase(str) == [i \in 1..Len(str) |-> LowerToken(str[i])]

\* trim(): without the blanks at both ends
RECURSIVE trim(_)
trim(str) ==
    IF str = <<>> THEN <<>>
    ELSE IF str[1] = " " THEN trim(Tail(str))
    ELSE IF str[Len(str)] = " " THEN trim(SubSeq(str, 1, Len(str) - 1))
    ELSE str

\* escapeLikeString of sql: the wildcards of LIKE are escaped
escapeLikeString(str) ==
    Flat([i \in 1..Len(str) |-> IF str[i] \in {"%", "_"} THEN <<"\\", str[i]>> ELSE <<str[i]>>])

\* splitSearchOnComma of core
splitSearchOnComma(value) == SplitOn(value, ",")

\* splitN(str, '|', 2) of core: split at the first delimiter only
splitN2(str) ==
    IF \A i \in 1..Len(str) : str[i] # "|" THEN <<str>>
    ELSE LET i == CHOOSE j \in 1..Len(str) : str[j] = "|" /\ \A h \in 1..(j-1) : str[h] # "|"
         IN  <<SubSeq(str, 1, i - 1), SubSeq(str, i + 1, Len(str))>>

Column(tableName, columnName) == [tableName |-> tableName, columnName |-> columnName]

TypedCondition(column, operator, parameter, parameterType) ==
    [k |-> "Condition", column |-> column, operator |-> operator,
     parameter |-> parameter, parameterType |-> parameterType]

Negation(expression) == [k |-> "Negation", expression |-> expression]

Disjunction(expressions) == [k |-> "Disjunction", expressions |-> expressions]

Conjunction(expressions) == [k |-> "Conjunction", expressions |-> expressions]

\* getTokenIndexType from the element definitions of the plan on: the case insensitive
\* type is looked for first
tokenIndexTypeOf(eds) ==
    IF Len(eds) = 0 THEN "undefined"
    ELSE IF \E i \in 1..Len(eds) : "ContactPoint" \in Range(eds[i].type)
    THEN "CASE_INSENSITIVE"
    ELSE IF \E i \in 1..Len(eds) :
               Range(eds[i].type) \cap {"Identifier", "CodeableConcept", "Coding"} # {}
    THEN "CASE_SENSITIVE"
    ELSE "undefined"

\* getTokenIndexType(searchParam, resourceType) on the cache c: the index type
\* ("undefined" for none, "thrown" when the compilation throws) and the cache it leaves
getTokenIndexType(c, searchParam, resourceType) ==
    IF searchParam.type # "token" THEN [type |-> "undefined", cache |-> c]
    ELSE IF EndsWith(searchParam.code, <<":identifier">>)
    THEN [type |-> "CASE_SENSITIVE", cache |-> c]
    ELSE Only({ [type |-> IF r.result = Thrown THEN "thrown"
                          ELSE tokenIndexTypeOf(r.result.elementDefinitions),
                 cache |-> r.cache]
                  : r \in {getSearchParameterDetails(c, resourceType, searchParam)} })

\* isCaseSensitiveSearchParameter(param, resourceType)
isCaseSensitiveSearchParameter(c, param, resourceType) ==
    Only({ [ok |-> t.type # "thrown", value |-> t.type = "CASE_SENSITIVE", cache |-> t.cache]
             : t \in {getTokenIndexType(c, param, resourceType)} })

shouldCompareTokenValue(operator) ==
    operator \notin {"MISSING", "PRESENT", "IN", "NOT_IN", "IDENTIFIER"}

\* the "exists" test without the case of NOT and NOT_EQUALS
shouldTokenRowExist_NeverNegated(filter) ==
    IF shouldCompareTokenValue(filter.operator) THEN [ok |-> TRUE, exists |-> TRUE]
    ELSE IF filter.operator = "MISSING"
    THEN [ok |-> toLowerCase(filter.value) \in {<<"true">>, <<"false">>},
          exists |-> toLowerCase(filter.value) = <<"false">>]
    ELSE IF filter.operator = "PRESENT"
    THEN [ok |-> toLowerCase(filter.value) \in {<<"true">>, <<"false">>},
          exists |-> toLowerCase(filter.value) = <<"true">>]
    ELSE [ok |-> TRUE, exists |-> TRUE]

\* the "exists" test that takes every value for MISSING and PRESENT
shouldTokenRowExist_AnyValue(filter) ==
    IF shouldCompareTokenValue(filter.operator)
    THEN [ok |-> TRUE, exists |-> filter.operator \notin {"NOT", "NOT_EQUALS"}]
    ELSE IF filter.operator = "MISSING"
    THEN [ok |-> TRUE, exists |-> toLowerCase(filter.value) # <<"true">>]
    ELSE IF filter.operator = "PRESENT"
    THEN [ok |-> TRUE, exists |-> toLowerCase(filter.value) # <<"false">>]
    ELSE [ok |-> TRUE, exists |-> TRUE]

\* shouldTokenRowExist(filter); ok is false when it throws the bad request
shouldTokenRowExist(filter) ==
    IF shouldCompareTokenValue(filter.operator)
    THEN [ok |-> TRUE, exists |-> filter.operator \notin {"NOT", "NOT_EQUALS"}]
    ELSE IF filter.operator = "MISSING"
    THEN [ok |-> toLowerCase(filter.value) \in {<<"true">>, <<"false">>},
          exists |-> toLowerCase(filter.value) = <<"false">>]
    ELSE IF filter.operator = "PRESENT"
    THEN [ok |-> toLowerCase(filter.value) \in {<<"true">>, <<"false">>},
          exists |-> toLowerCase(filter.value) = <<"true">>]
    ELSE [ok |-> TRUE, exists |-> TRUE]

\* buildValueCondition(details, tableName, filter, caseSensitive, system, value);
\* system is <<>> for undefined and for the empty string
buildValueCondition(details, tableName, filter, caseSensitive, system, value0) ==
    LET value == trim(value0)
        valuePart == IF value # <<>> THEN <<DELIM>> \o value ELSE <<>>
        tokenCol == Column(tableName, details.columnName)
    IN  IF filter.operator = "TEXT"
        THEN Conjunction(<<
                TypedCondition(tokenCol, "ARRAY_CONTAINS", <<"text">>, "text[]"),
                TypedCondition(tokenCol, "ARRAY_IREGEX",
                               <<"text", DELIM, "[^", ARRAY_DELIM, "]*">> \o value, "text[]")>>)
        ELSE IF filter.operator = "CONTAINS"
        THEN Conjunction(<<
                TypedCondition(tokenCol, "ARRAY_ILIKE",
                               <<"%", ARRAY_DELIM, DELIM, "%">> \o escapeLikeString(value) \o <<"%">>,
                               "text[]"),
                TypedCondition(tokenCol, "ARRAY_IREGEX",
                               <<ARRAY_DELIM, DELIM, "[^", ARRAY_DELIM, "]*">> \o value, "text[]")>>)
        ELSE IF caseSensitive
        THEN TypedCondition(tokenCol, "ARRAY_CONTAINS", system \o valuePart, "text[]")
        ELSE TypedCondition(tokenCol, "ARRAY_IREGEX",
                            system \o <<DELIM>> \o value \o <<ARRAY_DELIM>>, "text[]")

\* buildInValueSetCondition(tableName, value): the subquery is the aggregate, over the
\* references of the ValueSet with this url, of 'code' DELIM reference
buildInValueSetCondition(tableName, value) ==
    TypedCondition(Column(tableName, "token"), "ARRAY_CONTAINS_SUBQUERY",
                   [select |-> <<"array_agg('", "code", DELIM, "' || reference)">>,
                    from |-> "ValueSet", url |-> value, limit |-> 1],
                   "TEXT[]")

\* buildWhereCondition(details, tableName, filter, caseSensitive, query)
buildWhereCondition(details, tableName, filter, caseSensitive, query) ==
    LET parts == splitN2(query)
    IN  IF Len(parts) = 2
        THEN buildValueCondition(details, tableName, filter, caseSensitive,
                                 IF parts[1] # <<>> THEN parts[1] ELSE <<NULL_SYSTEM>>, parts[2])
        ELSE IF filter.operator = "IN" THEN buildInValueSetCondition(tableName, query)
        ELSE IF shouldCompareTokenValue(filter.operator)
        THEN buildValueCondition(details, tableName, filter, caseSensitive, <<>>, query)
        ELSE Undefined

\* buildWhereExpression(details, tableName, caseSensitive, filter)
buildWhereExpression(details, tableName, caseSensitive, filter) ==
    LET options == splitSearchOnComma(filter.value)
        all == [i \in 1..Len(options) |->
                   buildWhereCondition(details, tableName, filter, caseSensitive, options[i])]
        subExpressions == SelectSeq(all, IsDefined)
    IN  IF Len(subExpressions) > 0 THEN Disjunction(subExpressions) ELSE Undefined

\* TokenTable.buildWhere from the where expression on; c is the cache it leaves
whereOf(details, table, caseSensitive, filter, c) ==
    Only({ Only({ IF ~exists.ok
                  THEN [ok |-> FALSE, error |-> "badRequest", expr |-> Undefined, cache |-> c]
                  ELSE [ok |-> TRUE, error |-> "none",
                        expr |-> IF exists.exists THEN whereExpression
                                 ELSE Negation(whereExpression),
                        cache |-> c]
                   : exists \in {shouldTokenRowExist(filter)} })
             : whereExpression \in
                 { Only({ IF built # Undefined THEN built
                          ELSE TypedCondition(Column(table, details.columnName), "ARRAY_EMPTY",
                                              Undefined, Undefined)
                            : built \in {buildWhereExpression(details, table, caseSensitive,
                                                              filter)} }) } })

\* TokenTable.buildWhere(_selectQuery, resourceType, table, param, filter) on the
\* cache c: the expression (ok is false when it throws: the Error of the compiler, or
\* the OperationOutcomeError with the bad request) and the cache it leaves
buildWhere(c, resourceType, table, param, filter) ==
    Only({ Only({ IF ~cs.ok \/ d.result = Thrown
                  THEN [ok |-> FALSE, error |-> "Error", expr |-> Undefined,
                        cache |-> d.cache]
                  ELSE whereOf(d.result, table, cs.value, filter, d.cache)
                   : d \in {getSearchParameterDetails(cs.cache, resourceType, param)} })
             : cs \in {isCaseSensitiveSearchParameter(c, param, resourceType)} })

\* escapeLiteral of pg: the string as a literal of sql
escapeLiteral(str) == <<"'">> \o str \o <<"'">>

\* TokenTable.addOrderBy(selectQuery, resourceType, sortRule): the order-by it adds to
\* the query
addOrderBy(resourceType, sortRule) ==
    [column |-> [tableName |-> Undefined,
                 columnName |-> <<"substring(a2t(token),">>
                                   \o escapeLiteral(sortRule.code
                                          \o <<DELIM, DELIM, "([^", ARRAY_DELIM, "]+)">>)
                                   \o <<")">>,
                 raw |-> TRUE],
     descending |-> sortRule.descending]

----------------------------------------------------------------------------
(* The stored column and what the conditions mean on it.  A row is the       *)
(* sequence of the encoded entries of one resource.                          *)

\* the encoded entry of a token: code DELIM system-or-NULL_SYSTEM DELIM value
encodeToken(token) ==
    token.code \o <<DELIM>>
       \o (IF token.system = <<>> THEN <<NULL_SYSTEM>> ELSE token.system)
       \o <<DELIM>> \o token.value

encodeTokens(tokens) == [i \in 1..Len(tokens) |-> encodeToken(tokens[i])]

\* a2t(column): the entries as one text, with ARRAY_DELIM before and after each
a2t(row) == <<ARRAY_DELIM>> \o Flat([i \in 1..Len(row) |-> row[i] \o <<ARRAY_DELIM>>])

\* the regular expression matches the text at position i, without case: a dot stands
\* for any character, every other character of these patterns for itself
regexMatchesAt(pattern, text, i) ==
    /\ i + Len(pattern) - 1 <= Len(text)
    /\ \A k \in 1..Len(pattern) :
          pattern[k] = "." \/ LowerToken(pattern[k]) = LowerToken(text[i + k - 1])

\* text ~* pattern
iregex(text, pattern) == \E i \in 1..(Len(text) + 1) : regexMatchesAt(pattern, text, i)

\* the ValueSet table: the references of the ValueSet with a url
ValueSetReference(url) == IF url = <<"a">> THEN {<<"sys">>} ELSE {}

\* the strings the subquery of buildInValueSetCondition yields
subqueryStrings(query) ==
    { <<query.select[2], query.select[3]>> \o reference : reference \in ValueSetReference(query.url) }

\* the text matches, from position i on, the characters before the group of the
\* pattern and then at least one character of the group [^ARRAY_DELIM]+
groupMatchesAt(before, text, i) ==
    /\ i + Len(before) <= Len(text)
    /\ SubSeq(text, i, i + Len(before) - 1) = before
    /\ text[i + Len(before)] # ARRAY_DELIM

\* the characters of the text from position i up to the next ARRAY_DELIM
RECURSIVE upToDelim(_, _)
upToDelim(text, i) ==
    IF i > Len(text) \/ text[i] = ARRAY_DELIM THEN <<>>
    ELSE <<text[i]>> \o upToDelim(text, i + 1)

\* the null of sql, which is no text
SqlNull == <<"NULL">>

\* substring(text, pattern) of sql for a pattern that ends in the group
\* ([^ARRAY_DELIM]+): the group of the first match, or null
substring(text, pattern) ==
    LET before == SubSeq(pattern, 1, Len(pattern) - 3)
        at == {i \in 1..Len(text) : groupMatchesAt(before, text, i)}
    IN  IF at = {} THEN SqlNull
        ELSE upToDelim(text, Len(before) + CHOOSE i \in at : \A j \in at : i <= j)

\* the value a row is sorted by: the order-by column evaluated on the row
sortValue(orderBy, row) ==
    substring(a2t(row),
              SubSeq(orderBy.column.columnName, 3, Len(orderBy.column.columnName) - 2))

----------------------------------------------------------------------------
(* Token extraction (token.ts).  An optional string is a sequence of at most *)
(* one string: <<>> is undefined.  A typed value is [type, value]; the value *)
(* of a complex type is a record of its fields.                              *)

None == <<>>

Some(str) == <<str>>

\* a string that is neither undefined nor empty
Truthy(opt) == opt # <<>> /\ opt[1] # ""

ComplexTypes == {"Patient", "Observation", "HumanName", "Reference"}

\* the typed values one property step leads to
evalProperty(typedValues, name) ==
    Flat([i \in 1..Len(typedValues) |->
            IF typedValues[i].type \in ComplexTypes /\ name \in DOMAIN typedValues[i].value
            THEN typedValues[i].value[name] ELSE <<>>])

RECURSIVE evalSteps(_, _, _)
evalSteps(typedValues, steps, i) ==
    IF i > Len(steps) THEN typedValues
    ELSE evalSteps(evalProperty(typedValues, steps[i][2]), steps, i + 1)

\* removeDuplicates of the union operator: the first of equal values is kept
removeDuplicates(typedValues) ==
    SelectSeq([i \in 1..Len(typedValues) |->
                  IF \E j \in 1..(i - 1) : typedValues[j] = typedValues[i]
                  THEN Undefined ELSE typedValues[i]],
              IsDefined)

\* evalFhirPathTyped(expression, [toTypedValue(resource)]), for the expressions made of
\* property steps: the values of the clauses of the resource's type, in order
evalFhirPathTyped(expression, resource) ==
    LET root == <<[type |-> resource.resourceType, value |-> resource]>>
        clause(i) == IF expression[i].rt = resource.resourceType
                     THEN evalSteps(root, expression[i].steps, 1) ELSE <<>>
        all == Flat([i \in 1..Len(expression) |-> clause(i)])
    IN  IF Len(expression) > 1 THEN removeDuplicates(all) ELSE all

\* deriveIdentifierSearchParameter(searchParam) of util
deriveIdentifierSearchParameter(searchParam) ==
    [id |-> "none",
     code |-> searchParam.code \o <<":identifier">>,
     type |-> "token",
     expression |-> [i \in 1..Len(searchParam.expression) |->
                        [searchParam.expression[i] EXCEPT
                            !.steps = Append(@, <<"prop", "identifier">>)]]]

\* buildSimpleToken adding the token whether or not it has a system or a value
buildSimpleToken_AlwaysAdds(result, searchParam, caseSensitive, system, value) ==
    IF ~\E i \in 1..Len(result) :
              /\ result[i].code = searchParam.code
              /\ result[i].system = system
              /\ result[i].value = value
    THEN Append(result, [code |-> searchParam.code,
                         system |-> system,
                         value |-> IF Truthy(value) /\ ~caseSensitive
                                   THEN toLowerCase(value) ELSE value])
    ELSE result

\* buildSimpleToken(result, searchParam, caseSensitive, system, value): the result array
\* after the call
buildSimpleToken(result, searchParam, caseSensitive, system, value) ==
    IF /\ Truthy(system) \/ Truthy(value)
       /\ ~\E i \in 1..Len(result) :
              /\ result[i].code = searchParam.code
              /\ result[i].system = system
              /\ result[i].value = value
    THEN Append(result, [code |-> searchParam.code,
                         system |-> system,
                         value |-> IF Truthy(value) /\ ~caseSensitive
                                   THEN toLowerCase(value) ELSE value])
    ELSE result

buildIdentifierToken(result, searchParam, caseSensitive, identifier) ==
    buildSimpleToken(result, searchParam, caseSensitive, identifier.system, identifier.value)

\* the Coding token with the display after the code
buildCodingToken_CodeFirst(result, searchParam, caseSensitive, coding) ==
    Only({ IF Truthy(coding.display)
           THEN buildSimpleToken(withCode, searchParam, caseSensitive, Some("text"),
                                 coding.display)
           ELSE withCode
             : withCode \in {buildSimpleToken(result, searchParam, caseSensitive,
                                              coding.system, coding.code)} })

buildCodingToken(result, searchParam, caseSensitive, coding) ==
    Only({ buildSimpleToken(withDisplay, searchParam, caseSensitive, coding.system, coding.code)
             : withDisplay \in
                 { IF Truthy(coding.display)
                   THEN buildSimpleToken(result, searchParam, caseSensitive, Some("text"),
                                         coding.display)
                   ELSE result } })

RECURSIVE buildCodingTokens(_, _, _, _, _)
buildCodingTokens(result, searchParam, caseSensitive, codings, i) ==
    IF i > Len(codings) THEN result
    ELSE buildCodingTokens(
            Only({buildCodingToken(r, searchParam, caseSensitive, codings[i]) : r \in {result}}),
            searchParam, caseSensitive, codings, i + 1)

buildCodeableConceptToken(result, searchParam, caseSensitive, codeableConcept) ==
    Only({ buildCodingTokens(withText, searchParam, caseSensitive, codeableConcept.coding, 1)
             : withText \in
                 { IF Truthy(codeableConcept.text)
                   THEN buildSimpleToken(result, searchParam, caseSensitive, Some("text"),
                                         codeableConcept.text)
                   ELSE result } })

buildContactPointToken(result, searchParam, caseSensitive, contactPoint) ==
    buildSimpleToken(result, searchParam, caseSensitive, contactPoint.system,
                     IF Truthy(contactPoint.value) THEN toLowerCase(contactPoint.value)
                     ELSE contactPoint.value)

\* value.toString() of a typed value
toString(typedValue) ==
    IF typedValue.type \in ComplexTypes THEN "[object Object]" ELSE typedValue.value

\* the switch of buildTokens on the type of the value
tokensOfValue(result, searchParam, caseSensitive, typedValue) ==
    CASE typedValue.type = "Identifier" ->
            buildIdentifierToken(result, searchParam, caseSensitive, typedValue.value)
      [] typedValue.type = "CodeableConcept" ->
            buildCodeableConceptToken(result, searchParam, caseSensitive, typedValue.value)
      [] typedValue.type = "Coding" ->
            buildCodingToken(result, searchParam, caseSensitive, typedValue.value)
      [] typedValue.type = "ContactPoint" ->
            buildContactPointToken(result, searchParam, caseSensitive, typedValue.value)
      [] OTHER ->
            buildSimpleToken(result, searchParam, caseSensitive, None,
                             Some(toString(typedValue)))

\* buildTokens(result, searchParam, resource, typedValue) on the cache c: the result
\* array and the cache after the call; ok is false when it throws
buildTokens(c, result, searchParam, resource, typedValue) ==
    Only({ IF cs.ok
           THEN [ok |-> TRUE,
                 result |-> tokensOfValue(result, searchParam, cs.value, typedValue),
                 cache |-> cs.cache]
           ELSE [ok |-> FALSE, result |-> result, cache |-> cs.cache]
             : cs \in {isCaseSensitiveSearchParameter(c, searchParam, resource.resourceType)} })

RECURSIVE buildTokensFrom(_, _, _, _, _)
buildTokensFrom(acc, searchParam, resource, typedValues, i) ==
    IF i > Len(typedValues) \/ ~acc.ok THEN acc
    ELSE buildTokensFrom(
            Only({buildTokens(a.cache, a.result, searchParam, resource, typedValues[i])
                    : a \in {acc}}),
            searchParam, resource, typedValues, i + 1)

\* buildTokensForSearchParameter(result, resource, searchParam) on the cache c
buildTokensForSearchParameter(c, result, resource, searchParam) ==
    buildTokensFrom([ok |-> TRUE, result |-> result, cache |-> c], searchParam, resource,
                    evalFhirPathTyped(searchParam.expression, resource), 1)

\* the body of the loop of getTokens for one search parameter
getTokensOf(acc, resource, searchParam) ==
    Only({ IF own.ok /\ searchParam.type = "reference"
           THEN buildTokensForSearchParameter(own.cache, own.result, resource,
                                              deriveIdentifierSearchParameter(searchParam))
           ELSE own
             : own \in
                 { Only({ IF t.type = "thrown" THEN [acc EXCEPT !.ok = FALSE, !.cache = t.cache]
                          ELSE IF t.type # "undefined"
                          THEN buildTokensForSearchParameter(t.cache, acc.result, resource,
                                                             searchParam)
                          ELSE [acc EXCEPT !.cache = t.cache]
                            : t \in {getTokenIndexType(acc.cache, searchParam,
                                                       resource.resourceType)} }) } })

RECURSIVE getTokensFrom(_, _, _, _)
getTokensFrom(acc, resource, searchParams, i) ==
    IF i > Len(searchParams) \/ ~acc.ok THEN acc
    ELSE getTokensFrom(Only({getTokensOf(a, resource, searchParams[i]) : a \in {acc}}),
                       resource, searchParams, i + 1)

\* getTokens(resource) on the cache c, with searchParams = getSearchParameters(
\* resource.resourceType) in the order of Object.values
getTokens(c, resource, searchParams) ==
    getTokensFrom([ok |-> TRUE, result |-> <<>>, cache |-> c], resource, searchParams, 1)

----------------------------------------------------------------------------
(* The search parameter definitions the compiler is run on.  An expression    *)
(* is written as a sequence of clauses (joined by "|"), a clause as a         *)
(* resource type and a sequence of steps; parseFhirPath builds its atoms.     *)

SearchParam(id, code, type, expression) ==
    [id |-> id, code |-> code, type |-> type, expression |-> expression]

PropsOf(types) == UNION {DOMAIN Schema[t] : t \in types \cap DOMAIN Schema}

ElemsOf(types, p) ==
    {Schema[t][p] : t \in {u \in types \cap DOMAIN Schema : p \in DOMAIN Schema[u]}}

NextTypes(types, p) == UNION {Range(e.type) : e \in ElemsOf(types, p)}

\* a cast or function step, with the types the value has after it
Decorations(types) ==
    { [step |-> <<"as", "CodeableConcept">>, types |-> {"CodeableConcept"}],
      [step |-> <<"fn", "as", "boolean">>, types |-> {"boolean"}],
      [step |-> <<"fn", "ofType", "CodeableConcept">>, types |-> {"CodeableConcept"}],
      [step |-> <<"fn0", "resolve">>, types |-> {"Patient"}],
      [step |-> <<"whereIs", "Patient">>, types |-> types],
      [step |-> <<"whereEq">>, types |-> types],
      [step |-> <<"fn0", "last">>, types |-> types],
      [step |-> <<"fn0", "exists">>, types |-> {"boolean"}],
      [step |-> <<"exists-and">>, types |-> {"boolean"}] }

\* the types the value of a clause can have after its steps
RECURSIVE TypesAfter(_, _)
TypesAfter(rt, steps) ==
    IF steps = <<>> THEN {rt}
    ELSE LET before == TypesAfter(rt, SubSeq(steps, 1, Len(steps) - 1))
             step == steps[Len(steps)]
         IN  IF step[1] = "prop" THEN NextTypes(before, step[2])
             ELSE IF step[1] = "idx" THEN before
             ELSE (CHOOSE d \in Decorations(before) : d.step = step).types

\* the steps that can follow steps: a property of the schema (or one that is not), an
\* index on a multi-valued element, a cast or a function; nothing follows exists()
NextSteps(rt, steps) ==
    LET types == TypesAfter(rt, steps)
        last == IF steps = <<>> THEN <<"none">> ELSE steps[Len(steps)]
        indexable == /\ last[1] = "prop"
                     /\ \E e \in ElemsOf(TypesAfter(rt, SubSeq(steps, 1, Len(steps) - 1)),
                                         last[2]) : e.isArray
    IN  IF last \in {<<"fn0", "exists">>, <<"exists-and">>} THEN {}
        ELSE {<<"prop", p>> : p \in PropsOf(types) \cup {"bogus"}}
             \cup (IF indexable THEN {<<"idx">>} ELSE {})
             \cup {d.step : d \in Decorations(types)}

Clause(rt, steps) == [rt |-> rt, steps |-> steps]

\* clauses of one property step, and the one of the dateTime extension: the first
\* clause of a union
ShortClauses ==
    UNION { {Clause(rt, <<<<"prop", p>>>>) : p \in DOMAIN Schema[rt] \cup {"bogus"}}
            : rt \in ResourceTypes }
    \cup {Clause("Patient", <<<<"prop", "extension">>, <<"prop", "valueDateTime">>>>)}

DeclaredTypes == {"token", "date", "number", "quantity", "reference", "string"}

PlainCode == <<"code">>

\* [id, code, type] of a definition with a plain id and code, of every declared type
PlainMetas == { [id |-> "clinical-code", code |-> PlainCode, type |-> t] : t \in DeclaredTypes }

\* ... and with the ids and codes the classification looks at
SpecialMetas ==
    { [id |-> "clinical-code", code |-> c, type |-> t] :
             c \in {<<"address", "-", "city">>, <<"subject", ":identifier">>},
             t \in {"token", "number"} }
    \cup { [id |-> i, code |-> PlainCode, type |-> "token"] :
             i \in {"Patient-name", "individual-telecom", "Location-address"} }
    \cup { [id |-> "Patient-name", code |-> <<"subject", ":identifier">>, type |-> "token"] }

----------------------------------------------------------------------------
(* CompileSpec: a definition is written step by step, then compiled by       *)
(* buildSearchParameterDetails                                               *)

Idle == [rt |-> "none"]

NotRun == [done |-> FALSE]

\* the clause being written is the last one of the expression
LastClause(param) == param.expression[Len(param.expression)]

CompileInit ==
    /\ \E m \in PlainMetas \cup SpecialMetas, rt \in ResourceTypes :
         \/ cIn = [rt |-> rt,
                   param |-> SearchParam(m.id, m.code, m.type, <<Clause(rt, <<>>)>>)]
         \/ \E c \in ShortClauses :
               cIn = [rt |-> c.rt,
                      param |-> SearchParam(m.id, m.code, m.type, <<c, Clause(rt, <<>>)>>)]
    /\ cOut = NotRun
    /\ cache = {}
    /\ db = Idle
    /\ proc = Idle
    /\ call = Idle
    /\ first = Idle
    /\ wIn = Idle
    /\ wOut = NotRun
    /\ tIn = Idle
    /\ tOut = NotRun

\* one more step is written at the end of the expression; the second clause of a
\* union is kept as short as the first, and the special ids and codes go with the
\* expressions of at most two steps
AddStep ==
    /\ cOut = NotRun
    /\ LET c == LastClause(cIn.param)
           n == Len(cIn.param.expression)
       IN  /\ Len(c.steps) < MaxSteps
           /\ Len(c.steps) >= 2 => /\ n = 1
                                   /\ cIn.param.id = "clinical-code"
                                   /\ cIn.param.code = PlainCode
           /\ \E step \in NextSteps(c.rt, c.steps) :
                /\ n = 2 => \/ c.steps = <<>> /\ step[1] = "prop"
                            \/ c.steps = <<<<"prop", "extension">>>>
                                 /\ step = <<"prop", "valueDateTime">>
                /\ cIn' = [cIn EXCEPT !.param.expression[n].steps = Append(@, step)]
    /\ UNCHANGED <<cOut, cache, call, first, wIn, wOut, tIn, tOut, db, proc>>

\* buildSearchParameterDetails(cIn.rt, cIn.param), with its write of the plan
Compile ==
    /\ cOut = NotRun
    /\ \E r \in {buildSearchParameterDetails(cIn.rt, cIn.param)} :
           /\ cOut' = [done |-> TRUE, ok |-> r.ok, builder |-> r.builder, plan |-> r.plan]
           /\ cache' = IF r.ok
                       THEN setSearchParameterDetails(cache, cIn.rt, cIn.param.code, r.plan)
                       ELSE cache
    /\ UNCHANGED <<cIn, call, first, wIn, wOut, tIn, tOut, db, proc>>

CompileNext == AddStep \/ Compile

CompileSpec == CompileInit /\ [][CompileNext]_vars

----------------------------------------------------------------------------
(* Spec: getSearchParameterDetails is called, again and again, with the      *)
(* definitions of a catalogue, on one process-wide schema                    *)

OneProp(rt, p) == <<Clause(rt, <<<<"prop", p>>>>)>>

\* definitions that share the code "code" and differ in expression, type or id, one of
\* them a definition whose compilation throws for Patient, and one with a code of its
\* own
Catalogue ==
    { SearchParam("clinical-code", PlainCode, "token", OneProp("Observation", "code")),
      SearchParam("clinical-code", PlainCode, "token", OneProp("Observation", "category")),
      SearchParam("clinical-code", PlainCode, "date", OneProp("Patient", "birthDate")),
      SearchParam("Patient-name", PlainCode, "token", OneProp("Patient", "name")),
      SearchParam("Patient-active", <<"active">>, "token", OneProp("Patient", "active")),
      SearchParam("Patient-bogus", PlainCode, "token", OneProp("Patient", "bogus")) }

Init ==
    /\ cache = {}
    /\ db = Idle
    /\ proc = Idle
    /\ call = Idle
    /\ first = Idle
    /\ cIn = Idle
    /\ cOut = NotRun
    /\ wIn = Idle
    /\ wOut = NotRun
    /\ tIn = Idle
    /\ tOut = NotRun

\* the call that is watched: the first of two calls with the same arguments, and
\* whether the second has come
noteCall(watched, watch, resourceType, searchParam, result) ==
    IF watched = Idle
    THEN IF watch
         THEN [rt |-> resourceType, param |-> searchParam, result |-> result, again |-> FALSE]
         ELSE Idle
    ELSE IF watched.rt = resourceType /\ watched.param = searchParam
         THEN [watched EXCEPT !.again = TRUE]
         ELSE watched

\* a call of getSearchParameterDetails(resourceType, searchParam); any call can be
\* the watched one
GetSearchParameterDetails(resourceType, searchParam, watch) ==
    \E r \in {getSearchParameterDetails(cache, resourceType, searchParam)} :
        /\ cache' = r.cache
        /\ call' = [rt |-> resourceType, param |-> searchParam, result |-> r.result,
                    hit |-> r.hit]
        /\ first' = noteCall(first, watch, resourceType, searchParam, r.result)
        /\ UNCHANGED <<cIn, cOut, wIn, wOut, tIn, tOut, db, proc>>

Next ==
    \E rt \in ResourceTypes, p \in Catalogue, watch \in BOOLEAN :
        GetSearchParameterDetails(rt, p, watch)

Spec == Init /\ [][Next]_vars

----------------------------------------------------------------------------
(* WhereSpec: a filter on a token parameter is written token by token, then  *)
(* TokenTable.buildWhere builds its condition                                *)

Operators == {"EQUALS", "NOT_EQUALS", "NOT", "EXACT", "TEXT", "CONTAINS",
              "MISSING", "PRESENT", "IN", "NOT_IN", "IDENTIFIER"}

ValueTokens == {"a", "B", "sys", ",", "|", " ", ".", "true", "false", "TRUE"}

\* a case sensitive parameter, a case insensitive one, and one that does not compile
WhereParams ==
    { [rt |-> "Observation",
       param |-> SearchParam("clinical-code", PlainCode, "token", OneProp("Observation", "code"))],
      [rt |-> "Patient",
       param |-> SearchParam("Patient-telecom", <<"telecom">>, "token",
                             OneProp("Patient", "telecom"))],
      [rt |-> "Patient",
       param |-> SearchParam("Patient-bogus", <<"bogus">>, "token", OneProp("Patient", "bogus"))] }

WhereInit ==
    /\ \E w \in WhereParams, op \in Operators :
          wIn = [rt |-> w.rt, param |-> w.param,
                 filter |-> [code |-> w.param.code, operator |-> op, value |-> <<>>]]
    /\ wOut = NotRun
    /\ cache = {}
    /\ db = Idle
    /\ proc = Idle
    /\ call = Idle
    /\ first = Idle
    /\ cIn = Idle
    /\ cOut = NotRun
    /\ tIn = Idle
    /\ tOut = NotRun

\* one more token of the filter value; true and false are written alone
AddToken ==
    /\ wOut = NotRun
    /\ Len(wIn.filter.value) < MaxValueLen
    /\ \E t \in ValueTokens :
          /\ LowerToken(t) \in {"true", "false"} => wIn.filter.value = <<>>
          /\ wIn.filter.value # <<>> => LowerToken(wIn.filter.value[1]) \notin {"true", "false"}
          /\ wIn' = [wIn EXCEPT !.filter.value = Append(@, t)]
    /\ UNCHANGED <<wOut, cache, call, first, cIn, cOut, tIn, tOut, db, proc>>

\* TokenTable.buildWhere(selectQuery, wIn.rt, wIn.rt, wIn.param, wIn.filter)
BuildWhere ==
    /\ wOut = NotRun
    /\ \E r \in {buildWhere(cache, wIn.rt, wIn.rt, wIn.param, wIn.filter)} :
           /\ wOut' = [done |-> TRUE, ok |-> r.ok, error |-> r.error, expr |-> r.expr]
           /\ cache' = r.cache
    /\ UNCHANGED <<wIn, call, first, cIn, cOut, tIn, tOut, db, proc>>

WhereNext == AddToken \/ BuildWhere

WhereSpec == WhereInit /\ [][WhereNext]_vars

----------------------------------------------------------------------------
(* TokenSpec: a resource is filled value by value; then getTokens extracts   *)
(* its tokens, or buildTokensForSearchParameter is called, for one parameter *)
(* after the other, on one result array                                      *)

\* getSearchParameters(resourceType): the indexed search parameters, unique by code
getSearchParameters(resourceType) ==
    IF resourceType = "Patient"
    THEN << SearchParam("Patient-identifier", <<"identifier">>, "token",
                        OneProp("Patient", "identifier")),
            SearchParam("individual-telecom", <<"telecom">>, "token",
                        OneProp("Patient", "telecom")),
            SearchParam("Patient-contact", <<"contact">>, "token",
                        <<Clause("Patient", <<<<"prop", "telecom">>>>),
                          Clause("Patient", <<<<"prop", "identifier">>>>)>>),
            SearchParam("Patient-given", <<"given">>, "token",
                        <<Clause("Patient", <<<<"prop", "name">>, <<"prop", "given">>>>)>>),
            SearchParam("Patient-general-practitioner", <<"general", "-", "practitioner">>,
                        "reference", OneProp("Patient", "generalPractitioner")) >>
    ELSE << SearchParam("clinical-code", PlainCode, "token", OneProp("Observation", "code")),
            SearchParam("Observation-category", <<"category">>, "token",
                        OneProp("Observation", "category")) >>

Identifier(system, value) ==
    [type |-> "Identifier", value |-> [system |-> system, value |-> value]]

ContactPoint(system, value) ==
    [type |-> "ContactPoint", value |-> [system |-> system, value |-> value]]

CodeableConcept(text, coding) ==
    [type |-> "CodeableConcept", value |-> [text |-> text, coding |-> coding]]

\* the empty resource of a type
EmptyResource(resourceType) ==
    IF resourceType = "Patient"
    THEN [resourceType |-> "Patient", identifier |-> <<>>, telecom |-> <<>>, name |-> <<>>,
          generalPractitioner |-> <<>>]
    ELSE [resourceType |-> "Observation", code |-> <<>>, category |-> <<>>]

\* the values a property of a resource can be given
ValuesFor(resourceType) ==
    IF resourceType = "Patient"
    THEN { [prop |-> "identifier", v |-> Identifier(Some("sys"), Some("ABC"))],
           [prop |-> "identifier", v |-> Identifier(Some("sys"), Some("abc"))],
           [prop |-> "identifier", v |-> Identifier(None, None)],
           [prop |-> "identifier", v |-> Identifier(Some(""), Some(""))],
           [prop |-> "telecom", v |-> ContactPoint(None, None)],
           [prop |-> "telecom", v |-> ContactPoint(Some("phone"), Some(""))],
           [prop |-> "name",
            v |-> [type |-> "HumanName",
                   value |-> [given |-> <<[type |-> "string", value |-> ""]>>]]],
           [prop |-> "telecom", v |-> ContactPoint(Some("phone"), Some("ABC"))],
           [prop |-> "name",
            v |-> [type |-> "HumanName",
                   value |-> [given |-> <<[type |-> "string", value |-> "ABC"]>>]]],
           [prop |-> "generalPractitioner",
            v |-> [type |-> "Reference",
                   value |-> [identifier |-> <<Identifier(Some("sys"), Some("ABC"))>>]]] }
    ELSE { [prop |-> "code",
            v |-> CodeableConcept(Some("ABC"),
                     <<[system |-> Some("sys"), code |-> Some("abc"), display |-> Some("ABC")]>>)],
           [prop |-> "category",
            v |-> CodeableConcept(None,
                     <<[system |-> Some("sys"), code |-> Some("abc"), display |-> None]>>)],
           [prop |-> "category",
            v |-> CodeableConcept(Some("ABC"),
                     <<[system |-> Some("sys"), code |-> Some("abc"), display |-> None],
                       [system |-> None, code |-> Some("ABC"), display |-> None]>>)],
           [prop |-> "category",
            v |-> CodeableConcept(None,
                     <<[system |-> Some("sys"), code |-> Some("ABC"), display |-> Some("B")]>>)],
           [prop |-> "category",
            v |-> CodeableConcept(Some(""),
                     <<[system |-> None, code |-> None, display |-> None],
                       [system |-> Some(""), code |-> Some(""), display |-> Some("")]>>)] }

\* the number of values the resource holds
ValueCount(resource) ==
    IF resource.resourceType = "Patient"
    THEN Len(resource.identifier) + Len(resource.telecom) + Len(resource.name)
            + Len(resource.generalPractitioner)
    ELSE Len(resource.code) + Len(resource.category)

TokenInit ==
    /\ \E rt \in ResourceTypes : tIn = EmptyResource(rt)
    /\ tOut = NotRun
    /\ cache = {}
    /\ db = Idle
    /\ proc = Idle
    /\ call = Idle
    /\ first = Idle
    /\ cIn = Idle
    /\ cOut = NotRun
    /\ wIn = Idle
    /\ wOut = NotRun

\* the resource gets one more value; the single-valued Observation.code gets one
AddValue ==
    /\ tOut = NotRun
    /\ ValueCount(tIn) < MaxValues
    /\ \E x \in ValuesFor(tIn.resourceType) :
          /\ x.prop = "code" => tIn.code = <<>>
          /\ tIn' = [tIn EXCEPT ![x.prop] = Append(@, x.v)]
    /\ UNCHANGED <<tOut, cache, call, first, cIn, cOut, wIn, wOut, db, proc>>

\* getTokens(tIn)
GetTokens ==
    /\ tOut = NotRun
    /\ \E r \in {getTokens(cache, tIn, getSearchParameters(tIn.resourceType))} :
           /\ tOut' = [done |-> TRUE, ok |-> r.ok, op |-> "getTokens", calls |-> 1,
                       tokens |-> r.result]
           /\ cache' = r.cache
    /\ UNCHANGED <<tIn, call, first, cIn, cOut, wIn, wOut, db, proc>>

\* buildTokensForSearchParameter(result, tIn, searchParam), on a new result array or on
\* the one of the calls before
BuildTokensForSearchParameter ==
    /\ IF tOut = NotRun THEN TRUE
       ELSE tOut.op = "buildTokensForSearchParameter" /\ tOut.calls < MaxCalls
    /\ \E i \in 1..Len(getSearchParameters(tIn.resourceType)) :
          \E r \in {buildTokensForSearchParameter(
                        cache, IF tOut = NotRun THEN <<>> ELSE tOut.tokens, tIn,
                        getSearchParameters(tIn.resourceType)[i])} :
              /\ tOut' = [done |-> TRUE, ok |-> r.ok, op |-> "buildTokensForSearchParameter",
                          calls |-> IF tOut = NotRun THEN 1 ELSE tOut.calls + 1,
                          tokens |-> r.result]
              /\ cache' = r.cache
    /\ UNCHANGED <<tIn, call, first, cIn, cOut, wIn, wOut, db, proc>>

TokenNext == AddValue \/ GetTokens \/ BuildTokensForSearchParameter

TokenSpec == TokenInit /\ [][TokenNext]_vars

----------------------------------------------------------------------------
(* OrderSpec: the token column of a resource is filled entry by entry, then   *)
(* TokenTable.addOrderBy adds the order-by of a sort rule to the query; wIn   *)
(* holds the sort rule and the row, wOut the order-bys of the query          *)

SortCodes == {<<"code">>, <<"category">>}

\* the system slot of an entry: a system, the null sentinel, or nothing
SystemSlots == {<<"sys">>, <<NULL_SYSTEM>>, <<>>}

\* an entry of the column: code DELIM system slot DELIM value
StoredEntries ==
    { [code |-> c, slot |-> s, value |-> v,
       entry |-> c \o <<DELIM>> \o s \o <<DELIM>> \o v] :
         c \in SortCodes, s \in SystemSlots, v \in {<<"a">>, <<"B">>} }

OrderInit ==
    /\ \E rt \in ResourceTypes, c \in SortCodes, d \in BOOLEAN :
          wIn = [rt |-> rt, sortRule |-> [code |-> c, descending |-> d], row |-> <<>>]
    /\ wOut = NotRun
    /\ cache = {}
    /\ db = Idle
    /\ proc = Idle
    /\ call = Idle
    /\ first = Idle
    /\ cIn = Idle
    /\ cOut = NotRun
    /\ tIn = Idle
    /\ tOut = NotRun

\* one more entry in the column of the resource
AddEntry ==
    /\ wOut = NotRun
    /\ Len(wIn.row) < MaxEntries
    /\ \E e \in StoredEntries : wIn' = [wIn EXCEPT !.row = Append(@, e)]
    /\ UNCHANGED <<wOut, cache, call, first, cIn, cOut, tIn, tOut, db, proc>>

\* TokenTable.addOrderBy(selectQuery, wIn.rt, wIn.sortRule) on a query without order-by
AddOrderBy ==
    /\ wOut = NotRun
    /\ wOut' = [done |-> TRUE, orderBys |-> <<addOrderBy(wIn.rt, wIn.sortRule)>>]
    /\ UNCHANGED <<wIn, cache, call, first, cIn, cOut, tIn, tOut, db, proc>>

OrderNext == AddEntry \/ AddOrderBy

OrderSpec == OrderInit /\ [][OrderNext]_vars

----------------------------------------------------------------------------
(* RaceSpec: several callers are about to call getSearchParameterDetails on   *)
(* the one process-wide schema and complete in any order.  The function is   *)
(* synchronous (no await between the lookup of line 59 and the write of line *)
(* 133), so a call runs to completion before the next one starts.  call is   *)
(* the sequence of the callers: [rt, param, done, result]                    *)

RaceInit ==
    /\ cache = {}
    /\ db = Idle
    /\ proc = Idle
    /\ call \in [1..MaxCallers ->
                   {[rt |-> rt, param |-> p, done |-> FALSE, result |-> Undefined] :
                        rt \in ResourceTypes, p \in Catalogue}]
    /\ first = Idle
    /\ cIn = Idle
    /\ cOut = NotRun
    /\ wIn = Idle
    /\ wOut = NotRun
    /\ tIn = Idle
    /\ tOut = NotRun

\* the call of caller i runs
Complete(i) ==
    /\ ~call[i].done
    /\ \E r \in {getSearchParameterDetails(cache, call[i].rt, call[i].param)} :
           /\ cache' = r.cache
           /\ call' = [call EXCEPT ![i].done = TRUE, ![i].result = r.result]
    /\ UNCHANGED <<first, cIn, cOut, wIn, wOut, tIn, tOut, db, proc>>

RaceNext == \E i \in 1..MaxCallers : Complete(i)

RaceSpec == RaceInit /\ [][RaceNext]_vars

----------------------------------------------------------------------------
(* Database set-up and migrations (packages/server/src/database.ts).  Each   *)
(* server process has its own pool, readonlyPool and serverVersion; the      *)
(* processes share the database: the row of "DatabaseMigration" and the      *)
(* advisory lock locks.migration.  A process record holds where the process  *)
(* is in initDatabase and the variables of runMigrations and migrate.        *)

\* Object.keys(schemaMigrations): the schema migrations v1 .. vN of the server
schemaKeys == 1..MaxSchemaVersion

\* getMigrationVersions(dataMigrations): the data migrations v1 .. vM, in order
allDataVersions == [v \in 1..MaxDataVersion |-> v]

\* the versions of the server code
ServerVersions == {"3.0", "4.0"}

\* data-version-manifest.json: the server version each data migration requires
manifest(v) == [serverVersion |-> IF v % 2 = 1 THEN "3.0" ELSE "4.0"]

\* no row in "DatabaseMigration"
NoRow == [k |-> "norow"]

\* migrate has not read the table
Unread == [k |-> "unread"]

\* the rows the table can hold when the server starts
StoredRows ==
    {NoRow} \cup {[version |-> v, dataVersion |-> d] :
                     v \in 0..MaxSchemaVersion, d \in 0..MaxDataVersion}

\* a process before initDatabase
NewProcess(version) ==
    [pc |-> "start", serverVersion |-> version, pool |-> FALSE, readonlyPool |-> FALSE,
     client |-> FALSE, locked |-> FALSE, unlocks |-> 0, releases |-> 0,
     before |-> Unread, version |-> -1, dataVersion |-> -1, pendingDataMigration |-> 0,
     i |-> 0, log |-> <<>>, err |-> "none", got |-> <<>>]

\* getDatabasePool(mode) of a process
getDatabasePool(pr, mode) ==
    IF ~pr.pool THEN "Database not setup"
    ELSE IF mode = "reader" /\ pr.readonlyPool THEN "readonlyPool"
    ELSE "pool"

\* line 163: the server is not the one the data migration requires
versionMismatch_Never(serverVersion, requiredServerVersion) == FALSE

versionMismatch(serverVersion, requiredServerVersion) ==
    serverVersion # requiredServerVersion

\* lines 140-143: the row of a database that is started for the first time, with a
\* data version of 0
initialRow_NoDataVersion(versions) == [version |-> 0, dataVersion |-> 0]

\* lines 140-143: the row of a database that is started for the first time
initialRow(versions) == [version |-> 0, dataVersion |-> versions[Len(versions)]]

\* line 173: the loop over the schema migrations starting at the stored version
firstSchemaVersion_Stored(version) == version

\* line 173: the first value of the loop variable
firstSchemaVersion(version) == version + 1

\* lines 173 and 184: where migrate goes on with the loop variable at pr.i
afterSchema(pr) ==
    IF pr.i <= Cardinality(schemaKeys) THEN "schema"
    ELSE IF pr.pendingDataMigration # 0 THEN "data"
    ELSE "finally"

\* line 173: the loop variable is advanced and the loop goes on or ends
nextTurn(pr) ==
    Only({ [r EXCEPT !.pc = afterSchema(r)] : r \in {[pr EXCEPT !.i = @ + 1]} })

\* lines 130-170 of migrate on the row of the table: the process and the row after
\* them; the process is at "catch" when line 164 throws
readMigrations(pr, row) ==
    LET version == IF row = NoRow THEN -1 ELSE row.version
        dataVersion == IF row = NoRow THEN -1 ELSE row.dataVersion
        read == [pr EXCEPT !.before = row, !.version = version, !.dataVersion = dataVersion]
        go(r) == [r EXCEPT !.pc = afterSchema(r)]
    IN  IF version < 0
        THEN [row |-> initialRow(allDataVersions),
              pr |-> go([read EXCEPT !.version = 0,
                                     !.dataVersion = initialRow(allDataVersions).dataVersion,
                                     !.i = firstSchemaVersion(0),
                                     !.log = Append(@, <<"insert">>)])]
        ELSE IF dataVersion + 1 \in Range(allDataVersions)
        THEN IF versionMismatch(pr.serverVersion, manifest(dataVersion + 1).serverVersion)
             THEN [row |-> row,
                   pr |-> [read EXCEPT !.pendingDataMigration = dataVersion + 1,
                                       !.err = "mismatch", !.pc = "catch"]]
             ELSE [row |-> row,
                   pr |-> go([read EXCEPT !.pendingDataMigration = dataVersion + 1,
                                          !.i = firstSchemaVersion(version)])]
        ELSE [row |-> row, pr |-> go([read EXCEPT !.i = firstSchemaVersion(version)])]

\* lines 114-119: the finally block of runMigrations
finallyBlock(pr) ==
    IF pr.client
    THEN [pr EXCEPT !.unlocks = @ + 1, !.releases = @ + 1, !.client = FALSE,
                    !.pc = "readonly"]
    ELSE [pr EXCEPT !.pc = "readonly"]

\* the catch block leaving the client to the finally block
catchBlock_KeepsClient(pr) ==
    IF pr.client
    THEN finallyBlock([pr EXCEPT !.unlocks = @ + 1, !.releases = @ + 1])
    ELSE finallyBlock(pr)

\* the catch block throwing the error again
catchBlock_Rethrows(pr) ==
    [finallyBlock(pr) EXCEPT !.pc = "rejected"]

\* lines 107-119: the catch block of runMigrations, and the finally block after it
catchBlock(pr) ==
    IF pr.client
    THEN finallyBlock([pr EXCEPT !.unlocks = @ + 1, !.releases = @ + 1, !.client = FALSE])
    ELSE finallyBlock(pr)

\* pg_advisory_unlock by process p: the lock after it
unlocked(lock, p) == IF lock = p THEN 0 ELSE lock

----------------------------------------------------------------------------
(* MigrateSpec: server processes start on one database                       *)

\* two server processes start together
Servers == {1, 2}

MigrateInit ==
    /\ db \in {[row |-> r, lock |-> 0] : r \in StoredRows}
    /\ proc \in [Servers -> {NewProcess(v) : v \in ServerVersions}]
    /\ cache = {}
    /\ call = Idle
    /\ first = Idle
    /\ cIn = Idle
    /\ cOut = NotRun
    /\ wIn = Idle
    /\ wOut = NotRun
    /\ tIn = Idle
    /\ tOut = NotRun

\* initDatabase, lines 40-42: the pool is made; runMigrations is the configuration
InitDatabase(p, runMigrations) ==
    /\ proc[p].pc = "start"
    /\ proc' = [proc EXCEPT ![p].pool = TRUE,
                            ![p].pc = IF runMigrations THEN "connect" ELSE "readonly"]
    /\ UNCHANGED <<db, cache, call, first, cIn, cOut, wIn, wOut, tIn, tOut>>

\* line 103: pool.connect() gives a client or throws
Connect(p, ok) ==
    /\ proc[p].pc = "connect"
    /\ proc' = IF ok THEN [proc EXCEPT ![p].client = TRUE, ![p].pc = "lock"]
               ELSE [proc EXCEPT ![p].err = "connect", ![p].pc = "catch"]
    /\ UNCHANGED <<db, cache, call, first, cIn, cOut, wIn, wOut, tIn, tOut>>

\* lines 104-105: pg_advisory_lock returns when no other session holds the lock, or
\* the query throws
Lock(p, ok) ==
    /\ proc[p].pc = "lock"
    /\ IF ok
       THEN /\ db.lock = 0
            /\ db' = [db EXCEPT !.lock = p]
            /\ proc' = [proc EXCEPT ![p].locked = TRUE, ![p].pc = "migrate"]
       ELSE /\ proc' = [proc EXCEPT ![p].err = "lock", ![p].pc = "catch"]
            /\ UNCHANGED db
    /\ UNCHANGED <<cache, call, first, cIn, cOut, wIn, wOut, tIn, tOut>>

\* migrate, lines 124-170
ReadMigrations(p) ==
    /\ proc[p].pc = "migrate"
    /\ \E r \in {readMigrations(proc[p], db.row)} :
          /\ db' = [db EXCEPT !.row = r.row]
          /\ proc' = [proc EXCEPT ![p] = r.pr]
    /\ UNCHANGED <<cache, call, first, cIn, cOut, wIn, wOut, tIn, tOut>>

\* lines 174-178: the schema migration of the loop variable runs, or throws; there is
\* none when the loop variable names no migration
RunSchemaMigration(p, ok) ==
    /\ proc[p].pc = "schema"
    /\ proc' =
         IF proc[p].i \notin schemaKeys
         THEN [proc EXCEPT ![p] = nextTurn(@)]
         ELSE IF ok
         THEN [proc EXCEPT ![p].log = Append(@, <<"run", proc[p].i>>), ![p].pc = "record"]
         ELSE [proc EXCEPT ![p].log = Append(@, <<"failed", proc[p].i>>),
                           ![p].err = "schema", ![p].pc = "catch"]
    /\ UNCHANGED <<db, cache, call, first, cIn, cOut, wIn, wOut, tIn, tOut>>

\* line 179 and the next turn of the loop
RecordVersion(p) ==
    /\ proc[p].pc = "record"
    /\ db' = [db EXCEPT !.row.version = proc[p].i]
    /\ proc' = [proc EXCEPT
                  ![p] = nextTurn([@ EXCEPT !.log = Append(@, <<"version", proc[p].i>>)])]
    /\ UNCHANGED <<cache, call, first, cIn, cOut, wIn, wOut, tIn, tOut>>

\* lines 184-204: the pending data migration is started, or throws
StartDataMigration(p, ok) ==
    /\ proc[p].pc = "data"
    /\ proc' = IF ok
               THEN [proc EXCEPT ![p].log = Append(@, <<"data", proc[p].pendingDataMigration>>),
                                 ![p].pc = "finally"]
               ELSE [proc EXCEPT ![p].log = Append(@, <<"data", proc[p].pendingDataMigration>>),
                                 ![p].err = "data", ![p].pc = "catch"]
    /\ UNCHANGED <<db, cache, call, first, cIn, cOut, wIn, wOut, tIn, tOut>>

\* lines 107-119 after an error: the catch block, then the finally block
Catch(p) ==
    /\ proc[p].pc = "catch"
    /\ proc' = [proc EXCEPT ![p] = catchBlock(@)]
    /\ db' = [db EXCEPT !.lock = IF proc[p].client THEN unlocked(@, p) ELSE @]
    /\ UNCHANGED <<cache, call, first, cIn, cOut, wIn, wOut, tIn, tOut>>

\* lines 114-119 after migrate has returned
Finally(p) ==
    /\ proc[p].pc = "finally"
    /\ proc' = [proc EXCEPT ![p] = finallyBlock(@)]
    /\ db' = [db EXCEPT !.lock = IF proc[p].client THEN unlocked(@, p) ELSE @]
    /\ UNCHANGED <<cache, call, first, cIn, cOut, wIn, wOut, tIn, tOut>>

\* initDatabase, lines 46-48, and its return; readonlyDatabase is the configuration
ReadonlyPool(p, readonlyDatabase) ==
    /\ proc[p].pc = "readonly"
    /\ proc' = [proc EXCEPT ![p].readonlyPool = readonlyDatabase, ![p].pc = "done"]
    /\ UNCHANGED <<db, cache, call, first, cIn, cOut, wIn, wOut, tIn, tOut>>

\* a call of getDatabasePool(mode), after initDatabase has returned
GetDatabasePool(p, mode) ==
    /\ proc[p].pc \in {"done", "closed"}
    /\ proc' = [proc EXCEPT ![p].got = <<[mode |-> mode, at |-> proc[p].pc,
                                          result |-> getDatabasePool(proc[p], mode)]>>]
    /\ UNCHANGED <<db, cache, call, first, cIn, cOut, wIn, wOut, tIn, tOut>>

\* closeDatabase, after initDatabase has returned
CloseDatabase(p) ==
    /\ proc[p].pc = "done"
    /\ proc' = [proc EXCEPT ![p].pool = FALSE, ![p].readonlyPool = FALSE,
                            ![p].pc = "closed"]
    /\ UNCHANGED <<db, cache, call, first, cIn, cOut, wIn, wOut, tIn, tOut>>

MigrateNext ==
    \E p \in Servers :
        \/ \E runMigrations \in BOOLEAN : InitDatabase(p, runMigrations)
        \/ \E ok \in BOOLEAN : Connect(p, ok)
        \/ \E ok \in BOOLEAN : Lock(p, ok)
        \/ ReadMigrations(p)
        \/ \E ok \in BOOLEAN : RunSchemaMigration(p, ok)
        \/ RecordVersion(p)
        \/ \E ok \in BOOLEAN : StartDataMigration(p, ok)
        \/ Catch(p)
        \/ Finally(p)
        \/ \E readonlyDatabase \in BOOLEAN : ReadonlyPool(p, readonlyDatabase)
        \/ \E mode \in {"reader", "writer"} : GetDatabasePool(p, mode)
        \/ CloseDatabase(p)

MigrateSpec == MigrateInit /\ [][MigrateNext]_vars

----------------------------------------------------------------------------
(* What the claims say about a compiled definition, read off the definition  *)
(* as written (its steps and the schema), not off the compiler               *)

TheParam == cIn.param

OneClause == Len(TheParam.expression) = 1

TheSteps == TheParam.expression[1].steps

Prefix(steps, i) == SubSeq(steps, 1, i - 1)

\* the schema elements step i of a clause can resolve to
StepElems(rt, steps, i) == ElemsOf(TypesAfter(rt, Prefix(steps, i)), steps[i][2])

IsProp(steps, i) == steps[i][1] = "prop"

Indexed(steps, i) == i < Len(steps) /\ steps[i + 1][1] = "idx"

\* only property steps and indexes
PathOnly(steps) == \A i \in 1..Len(steps) : steps[i][1] \in {"prop", "idx"}

\* every property step names a property of every type the value before it can have
ValidPath(rt, steps) ==
    \A i \in 1..Len(steps) :
        IsProp(steps, i) =>
            \A t \in TypesAfter(rt, Prefix(steps, i)) :
                t \in DOMAIN Schema /\ steps[i][2] \in DOMAIN Schema[t]

\* the position of the last property step (0 when there is none)
LastProp(steps) ==
    IF \E i \in 1..Len(steps) : IsProp(steps, i)
    THEN CHOOSE i \in 1..Len(steps) : IsProp(steps, i) /\ \A j \in (i+1)..Len(steps) : ~IsProp(steps, j)
    ELSE 0

IsCastToConcept(step) ==
    step \in {<<"as", "CodeableConcept">>, <<"fn", "ofType", "CodeableConcept">>}

\* the path ends at an element of type CodeableConcept
ResolvesDirectlyToConcept(rt, steps) ==
    /\ steps # <<>> /\ PathOnly(steps) /\ ValidPath(rt, steps)
    /\ \A e \in StepElems(rt, steps, LastProp(steps)) : e.type = <<"CodeableConcept">>

\* the path ends at a choice element that has the type CodeableConcept, cast to it
ResolvesByCastToConcept(rt, steps) ==
    /\ Len(steps) >= 2 /\ IsCastToConcept(steps[Len(steps)])
    /\ LET path == SubSeq(steps, 1, Len(steps) - 1)
       IN  /\ PathOnly(path) /\ ValidPath(rt, path)
           /\ \A e \in StepElems(rt, path, LastProp(path)) :
                  "CodeableConcept" \in Range(e.type) /\ Len(e.type) > 1

LookupListed(param) ==
    \/ param.id \in nameParams \cup telecomParams \cup addressParams
    \/ StartsWith(param.code, <<"address", "-">>)

ConceptPlan(rt, steps) ==
    /\ cOut.ok
    /\ cOut.plan.implementation = "token-columns"
    /\ cOut.plan.type = "TEXT"
    /\ LET i == LastProp(steps)
       IN  (\E e \in StepElems(rt, steps, i) : e.isArray) /\ ~Indexed(steps, i)
               => cOut.plan.array

\* C7 (as claimed): a token parameter that is no lookup-table parameter and whose path
\* resolves to a CodeableConcept element, directly or through a cast of a choice
\* element, compiles to token-columns with type TEXT, and to array = true when the
\* element is multi-valued (and not indexed).
C7_ConceptIsTokenColumns ==
    (/\ cOut.done /\ OneClause
     /\ TheParam.type = "token" /\ ~LookupListed(TheParam)
     /\ \/ ResolvesDirectlyToConcept(cIn.rt, TheSteps)
        \/ ResolvesByCastToConcept(cIn.rt, TheSteps))
    => ConceptPlan(cIn.rt, TheSteps)

\* the part of C7 that the compiler keeps: the element is reached directly
C7_DirectConceptIsTokenColumns ==
    (/\ cOut.done /\ OneClause
     /\ TheParam.type = "token" /\ ~LookupListed(TheParam)
     /\ ResolvesDirectlyToConcept(cIn.rt, TheSteps))
    => ConceptPlan(cIn.rt, TheSteps)

\* C8: the implementation of a plan is lookup-table if the id is in the name, telecom or
\* address list or the code starts with address-; else token-columns if the declared
\* type is token and the code ends in :identifier or a collected element definition has
\* a type among Identifier, CodeableConcept, Coding, ContactPoint; else column.  So the
\* id Patient-name gives lookup-table, and the type number never gives token-columns.
C8_StoragePrecedence ==
    (cOut.done /\ cOut.ok) =>
        LET p == TheParam
            eds == cOut.plan.elementDefinitions
            listed == \/ p.id \in {"individual-given", "individual-family", "Patient-name",
                                    "Person-name", "Practitioner-name", "RelatedPerson-name"}
                      \/ p.id \in {"individual-telecom", "individual-email", "individual-phone",
                                    "OrganizationAffiliation-telecom",
                                    "OrganizationAffiliation-email",
                                    "OrganizationAffiliation-phone"}
                      \/ p.id \in {"individual-address", "InsurancePlan-address",
                                    "Location-address", "Organization-address"}
                      \/ (Len(p.code) >= 2 /\ p.code[1] = "address" /\ p.code[2] = "-")
            tokenish == /\ p.type = "token"
                        /\ \/ p.code[Len(p.code)] = ":identifier"
                           \/ \E i \in 1..Len(eds) : \E j \in 1..Len(eds[i].type) :
                                 eds[i].type[j] \in {"Identifier", "CodeableConcept",
                                                     "Coding", "ContactPoint"}
        IN  /\ cOut.plan.implementation =
                  IF listed THEN "lookup-table"
                  ELSE IF tokenish THEN "token-columns" ELSE "column"
            /\ p.id = "Patient-name" => cOut.plan.implementation = "lookup-table"
            /\ p.type = "number" => cOut.plan.implementation \in {"lookup-table", "column"}
            /\ (p.type = "number" /\ ~listed) => cOut.plan.implementation = "column"

\* a token parameter with a plain id and code whose element type asks for token columns
C8_Witness ==
    /\ cOut.done /\ cOut.ok
    /\ TheParam.id = "clinical-code" /\ TheParam.code = PlainCode
    /\ cOut.plan.implementation = "token-columns"
    /\ Len(cOut.plan.elementDefinitions) = 1

\* C9: with S the set of narrowed property types, date gives DATE iff S = {date}, else
\* DATETIME; reference gives CANONICAL iff canonical is in S, else REFERENCE; token gives
\* BOOLEAN iff S = {boolean}, else TEXT; number gives NUMBER; quantity gives QUANTITY;
\* every other declared type gives TEXT.
C9_SemanticType ==
    (cOut.done /\ cOut.ok) =>
        LET S == cOut.builder.propertyTypes
            t == TheParam.type
            type == cOut.plan.type
        IN  /\ t = "date" => /\ (type = "DATE") = (S = {<<"date">>})
                             /\ type \in {"DATE", "DATETIME"}
            /\ t = "reference" => /\ (type = "CANONICAL") = (<<"canonical">> \in S)
                                  /\ type \in {"CANONICAL", "REFERENCE"}
            /\ t = "token" => /\ (type = "BOOLEAN") = (S = {<<"boolean">>})
                              /\ type \in {"BOOLEAN", "TEXT"}
            /\ t = "number" => type = "NUMBER"
            /\ t = "quantity" => type = "QUANTITY"
            /\ t \notin {"date", "reference", "token", "number", "quantity"} => type = "TEXT"

\* a date parameter over a date element and an element of another type: DATETIME
C9_Witness ==
    /\ cOut.done /\ cOut.ok
    /\ TheParam.type = "date"
    /\ <<"date">> \in cOut.builder.propertyTypes
    /\ Cardinality(cOut.builder.propertyTypes) = 2
    /\ cOut.plan.type = "DATETIME"

\* the steps flattenAtom keeps: every step but where(x = y) and last()
Retained(step) == step \notin {<<"whereEq">>, <<"fn0", "last">>}

IsStop(step) == step[1] \in {"as", "fn", "fn0", "whereIs"} /\ Retained(step)

\* the property steps the compiler walks: those before the first cast or kept function
Walked(steps) ==
    {i \in 1..Len(steps) : IsProp(steps, i) /\ \A j \in 1..(i - 1) : ~IsStop(steps[j])}

MultiValued(rt, steps, i) == \E e \in StepElems(rt, steps, i) : e.isArray

PropName(step) == IF step[1] = "prop" THEN step[2] ELSE "#"

KeptNames(steps) ==
    LET kept == SelectSeq(steps, Retained)
    IN  [i \in 1..Len(kept) |-> PropName(kept[i])]

\* the endings with a fixed array flag
SpecialSuffix(steps) ==
    \/ EndsWith(KeptNames(steps), <<"extension", "valueDateTime">>)
    \/ EndsWith(KeptNames(steps), <<"extension", "value", "code">>)
    \/ EndsWith(KeptNames(steps), <<"extension", "value", "coding", "code">>)

IsBooleanClause(steps) == \E i \in 1..Len(steps) : steps[i] = <<"exists-and">>

C10_IndexedWitness ==
    /\ cOut.done /\ cOut.ok /\ OneClause
    /\ TheSteps = <<<<"prop", "name">>, <<"idx">>>>
    /\ cOut.plan.array = FALSE

\* C1 (as claimed): whatever calls came before, getSearchParameterDetails(R, P) returns
\* the plan that compiling P for R with an empty cache returns, so a definition never
\* receives the plan of another definition with the same code.
C1_PlanOfItsDefinition ==
    call # Idle => call.result = compiled(call.rt, call.param)

\* C2 (as claimed): two calls of getSearchParameterDetails with the same arguments return equal
\* plans, whatever calls come between them.
C2_Deterministic ==
    (/\ call # Idle /\ first # Idle
     /\ call.rt = first.rt /\ call.param = first.param)
    => call.result = first.result

\* a definition is called again, after a call with another definition of the same
\* code, and is served from the cache
C2_Witness ==
    /\ call # Idle /\ first # Idle
    /\ call.rt = first.rt /\ call.param = first.param /\ first.again
    /\ call.hit /\ IsPlan(call.result)
    /\ \E e \in cache : e.rt = call.rt /\ e.code # call.param.code

\* the entries a row can hold in the column of the parameter
Rows == {<<>>, <<<<"sys", DELIM, "a">>>>, <<<<"sys", DELIM, "a">>, <<NULL_SYSTEM, DELIM, "b">>>>}

\* whether a row satisfies a condition, by the meaning of the operators in sql: the
\* column is empty, holds an entry equal to the parameter, matches the regular
\* expression as text, or holds an entry whose code and system are a string of the
\* subquery
RECURSIVE Holds(_, _)
Holds(expr, row) ==
    CASE expr.k = "Negation" -> ~Holds(expr.expression, row)
      [] expr.k = "Disjunction" ->
            \E i \in 1..Len(expr.expressions) : Holds(expr.expressions[i], row)
      [] expr.k = "Conjunction" ->
            \A i \in 1..Len(expr.expressions) : Holds(expr.expressions[i], row)
      [] expr.k = "Condition" /\ expr.operator = "ARRAY_EMPTY" -> row = <<>>
      [] expr.k = "Condition" /\ expr.operator = "ARRAY_CONTAINS" ->
            \E i \in 1..Len(row) : row[i] = expr.parameter
      [] expr.k = "Condition" /\ expr.operator = "ARRAY_IREGEX" ->
            iregex(a2t(row), expr.parameter)
      [] expr.k = "Condition" /\ expr.operator = "ARRAY_CONTAINS_SUBQUERY" ->
            \E i \in 1..Len(row) : \E str \in subqueryStrings(expr.parameter) :
                StartsWith(row[i], str \o <<DELIM>>)
      [] OTHER -> FALSE

AbsenceAsked(filter) ==
    \/ filter.operator = "MISSING" /\ filter.value = <<"true">>
    \/ filter.operator = "PRESENT" /\ filter.value = <<"false">>

PresenceAsked(filter) ==
    \/ filter.operator = "MISSING" /\ filter.value = <<"false">>
    \/ filter.operator = "PRESENT" /\ filter.value = <<"true">>

\* C3 (as claimed): with MISSING 'true' or PRESENT 'false' the condition holds exactly
\* for the rows with no entry, with MISSING 'false' or PRESENT 'true' exactly for the
\* rows with at least one entry.
C3_MissingMeansNoEntry ==
    (wOut.done /\ wOut.ok) =>
        /\ AbsenceAsked(wIn.filter) => \A row \in Rows : Holds(wOut.expr, row) = (row = <<>>)
        /\ PresenceAsked(wIn.filter) => \A row \in Rows : Holds(wOut.expr, row) = (row # <<>>)

\* the values of a filter, between its commas
ValuesOf(value) ==
    LET commas == {i \in 1..Len(value) : value[i] = ","}
        cut(n) ==
            LET from == IF n = 1 THEN 1
                        ELSE 1 + CHOOSE i \in commas : Cardinality({j \in commas : j <= i}) = n - 1
                to == IF n = Cardinality(commas) + 1 THEN Len(value)
                      ELSE (CHOOSE i \in commas : Cardinality({j \in commas : j <= i}) = n) - 1
            IN  SubSeq(value, from, to)
    IN  [n \in 1..(Cardinality(commas) + 1) |-> cut(n)]

\* the equality term of one value: what the filter with the operator EQUALS gives it
EqualityTerm(v) ==
    LET equals == [wIn.filter EXCEPT !.operator = "EQUALS", !.value = v]
        plan == cachedDetails(cache, wIn.rt, wIn.param.code)
        caseSensitive == isCaseSensitiveSearchParameter(cache, wIn.param, wIn.rt).value
    IN  buildWhereExpression(plan, wIn.rt, caseSensitive, equals).expressions[1]

\* C4: for NOT and NOT_EQUALS with the values v1..vn, buildWhere returns one Negation
\* of one Disjunction of the n equality terms of the values, none of them negated.
C4_OneNegatedDisjunction ==
    (wOut.done /\ wOut.ok /\ wIn.filter.operator \in {"NOT", "NOT_EQUALS"}) =>
        LET vs == ValuesOf(wIn.filter.value)
        IN  /\ wOut.expr.k = "Negation"
            /\ wOut.expr.expression.k = "Disjunction"
            /\ Len(wOut.expr.expression.expressions) = Len(vs)
            /\ \A i \in 1..Len(vs) :
                  /\ wOut.expr.expression.expressions[i] = EqualityTerm(vs[i])
                  /\ wOut.expr.expression.expressions[i].k # "Negation"

\* NOT_EQUALS with the two values a and B
C4_Witness ==
    /\ wOut.done /\ wOut.ok
    /\ wIn.filter.operator = "NOT_EQUALS"
    /\ wIn.filter.value = <<"a", ",", "B">>
    /\ Len(wOut.expr.expression.expressions) = 2

\* C5 (as claimed): the list of getTokens, and the list any sequence of
\* buildTokensForSearchParameter calls builds on one result array, never holds two
\* tokens with the same code, system and value.
C5_NoDuplicateTokens ==
    tOut.done =>
        \A i, j \in 1..Len(tOut.tokens) : tOut.tokens[i] = tOut.tokens[j] => i = j

\* C5, for getTokens alone
C5_NoDuplicateTokensOfGetTokens ==
    (tOut.done /\ tOut.op = "getTokens") =>
        \A i, j \in 1..Len(tOut.tokens) : tOut.tokens[i] = tOut.tokens[j] => i = j

\* the search parameters of the resource's type, as a set
ParamsOf(resource) ==
    {getSearchParameters(resource.resourceType)[i] :
        i \in 1..Len(getSearchParameters(resource.resourceType))}

\* C6 (as claimed): getTokens extracts the tokens of exactly the parameters whose plan
\* is token-columns or whose type is reference; a parameter whose plan is lookup-table
\* or column and whose type is not reference contributes no token.
C6_OnlyTokenColumnsAndReferences ==
    (tOut.done /\ tOut.ok /\ tOut.op = "getTokens") =>
        \A p \in ParamsOf(tIn) :
            LET plan == compiled(tIn.resourceType, p)
                mine == {i \in 1..Len(tOut.tokens) : tOut.tokens[i].code = p.code}
                values == evalFhirPathTyped(p.expression, tIn)
            IN  /\ (plan.implementation # "token-columns" /\ p.type # "reference") => mine = {}
                /\ (/\ plan.implementation = "token-columns"
                    /\ \E k \in 1..Len(values) :
                          values[k].type \in {"Identifier", "ContactPoint"}
                          /\ Truthy(values[k].value.value))
                   => mine # {}

----------------------------------------------------------------------------
(* Compilation errors *)

\* the clauses kept for the resource type compiled: those written "<type>.<...>", a
\* property or a function applied to the resource type
RetainedClauses ==
    {i \in 1..Len(TheParam.expression) :
        /\ TheParam.expression[i].rt = cIn.rt
        /\ TheParam.expression[i].steps # <<>>
        /\ TheParam.expression[i].steps[1][1] \notin {"as", "idx"}}

\* some property step names no element of a type the value before it can have
HasMissingSegment(rt, steps) == ~ValidPath(rt, steps)

\* C11 (as claimed): compilation fails, and returns no plan, whenever a path segment of a
\* retained clause has no matching schema element for the type it is applied to,
\* wherever the segment stands (also after a cast or a retained function).
C11_MissingElementFails ==
    (/\ cOut.done
     /\ \E i \in RetainedClauses :
           /\ ~IsBooleanClause(TheParam.expression[i].steps)
           /\ HasMissingSegment(cIn.rt, TheParam.expression[i].steps))
    => ~cOut.ok

\* the functions handleFunctionAtom and flattenAtom know
SupportedFunction(step) ==
    \/ step[1] \in {"prop", "idx", "as", "whereIs", "whereEq"}
    \/ step[1] = "fn" /\ step[2] \in {"as", "ofType"}
    \/ step[1] = "fn0" /\ step[2] \in {"resolve", "last"}

\* C12 (as claimed): compilation fails, and returns no plan, whenever a retained clause
\* uses a function other than as, ofType, resolve, where(... is T), where(...) and
\* last(), wherever the function stands in the clause.
C12_UnsupportedFunctionFails ==
    (/\ cOut.done
     /\ \E i \in RetainedClauses :
           /\ ~IsBooleanClause(TheParam.expression[i].steps)
           /\ \E j \in 1..Len(TheParam.expression[i].steps) :
                 ~SupportedFunction(TheParam.expression[i].steps[j]))
    => ~cOut.ok

----------------------------------------------------------------------------
(* Extracted tokens *)

\* the list holds a token of this code, system and value
HasToken(tokens, code, system, value) ==
    \E i \in 1..Len(tokens) :
        tokens[i].code = code /\ tokens[i].system = system /\ tokens[i].value = value

\* the values of the codings of a concept: display and code
CodingTexts(concept) ==
    UNION { {[system |-> Some("text"), value |-> concept.coding[i].display],
             [system |-> concept.coding[i].system, value |-> concept.coding[i].code]}
              : i \in 1..Len(concept.coding) }

\* the tokens the case policy asks for a value of a token parameter, with their case
PolicyTokens(typedValue) ==
    CASE typedValue.type = "Identifier" ->
            {[system |-> typedValue.value.system, value |-> typedValue.value.value]}
      [] typedValue.type = "CodeableConcept" ->
            {[system |-> Some("text"), value |-> typedValue.value.text]}
               \cup CodingTexts(typedValue.value)
      [] typedValue.type = "ContactPoint" ->
            {[system |-> typedValue.value.system,
              value |-> toLowerCase(typedValue.value.value)]}
      [] OTHER -> {}

\* C13 (as claimed): a token built from an Identifier, CodeableConcept or Coding element
\* keeps the case of its value, a token built from a ContactPoint value is lower-cased,
\* and every token of a parameter whose code ends in :identifier keeps the case of its
\* value.
C13_CasePolicy ==
    (tOut.done /\ tOut.ok /\ tOut.op = "getTokens") =>
        \A p \in ParamsOf(tIn) :
            LET q == IF p.type = "reference" THEN deriveIdentifierSearchParameter(p) ELSE p
                values == evalFhirPathTyped(q.expression, tIn)
            IN  \A k \in 1..Len(values) :
                    \A t \in PolicyTokens(values[k]) :
                        Truthy(t.value) => HasToken(tOut.tokens, q.code, t.system, t.value)

\* the case policy, for the parameters whose elements are of one type
C13_CasePolicyOfOneType ==
    (tOut.done /\ tOut.ok /\ tOut.op = "getTokens") =>
        \A p \in ParamsOf(tIn) :
            LET q == IF p.type = "reference" THEN deriveIdentifierSearchParameter(p) ELSE p
                values == evalFhirPathTyped(q.expression, tIn)
            IN  Len(q.expression) = 1 =>
                   \A k \in 1..Len(values) :
                       \A t \in PolicyTokens(values[k]) :
                           Truthy(t.value) => HasToken(tOut.tokens, q.code, t.system, t.value)

\* the candidate tokens of a Coding: its display, if present, then its system and code
CodingCandidates(code, coding) ==
    (IF Truthy(coding.display)
     THEN <<[code |-> code, system |-> Some("text"), value |-> coding.display]>> ELSE <<>>)
    \o <<[code |-> code, system |-> coding.system, value |-> coding.code]>>

\* the candidate tokens of a CodeableConcept: its text, if present, then those of its
\* codings in their order
ConceptCandidates(code, concept) ==
    (IF Truthy(concept.text)
     THEN <<[code |-> code, system |-> Some("text"), value |-> concept.text]>> ELSE <<>>)
    \o Flat([i \in 1..Len(concept.coding) |-> CodingCandidates(code, concept.coding[i])])

\* the candidates that are retained: those with a system or a value, the first of equal
\* ones
RetainedTokens(candidates) ==
    SelectSeq([i \in 1..Len(candidates) |->
                  IF \/ ~(Truthy(candidates[i].system) \/ Truthy(candidates[i].value))
                     \/ \E j \in 1..(i - 1) : candidates[j] = candidates[i]
                  THEN Undefined ELSE candidates[i]],
              IsDefined)

\* the tokens of one code, in their order
TokensOfCode(tokens, code) ==
    SelectSeq([i \in 1..Len(tokens) |-> IF tokens[i].code = code THEN tokens[i] ELSE Undefined],
              IsDefined)

\* the parameters of an Observation all lead to CodeableConcept values
ConceptValued(resource) == resource.resourceType = "Observation"

\* C14: for CodeableConcept values the tokens of a parameter are, in this order, the
\* retained ones of: the token (text, concept.text) if text is present, then for each
\* Coding the token (text, display) if display is present followed by the token
\* (system, code).  A concept with a text and one Coding whose display is that text
\* yields exactly two tokens.
C14_ConceptTokensInOrder ==
    (tOut.done /\ tOut.ok /\ ConceptValued(tIn)) =>
        \A p \in ParamsOf(tIn) :
            LET values == evalFhirPathTyped(p.expression, tIn)
                expected == RetainedTokens(
                    Flat([k \in 1..Len(values) |-> ConceptCandidates(p.code, values[k].value)]))
                mine == TokensOfCode(tOut.tokens, p.code)
            IN  /\ tOut.op = "getTokens" => mine = expected
                /\ mine \in {<<>>, expected}
                /\ (/\ tOut.op = "getTokens" /\ Len(values) = 1
                    /\ Truthy(values[1].value.text) /\ Len(values[1].value.coding) = 1
                    /\ values[1].value.coding[1].display = values[1].value.text
                    /\ Truthy(values[1].value.coding[1].code))
                   => Len(mine) = 2

\* the concept with a text, and one Coding with that text as display, gave two tokens
C14_Witness ==
    /\ tOut.done /\ tOut.ok /\ tOut.op = "getTokens" /\ ConceptValued(tIn)
    /\ Len(tIn.code) = 1 /\ tIn.category = <<>>
    /\ Truthy(tIn.code[1].value.text)
    /\ tIn.code[1].value.coding[1].display = tIn.code[1].value.text
    /\ Len(tOut.tokens) = 2

\* a Coding with a display of its own gave the display token before the code token
C14_OrderWitness ==
    /\ tOut.done /\ tOut.ok /\ ConceptValued(tIn)
    /\ \E i \in 1..(Len(tOut.tokens) - 1) :
          /\ tOut.tokens[i].system = Some("text") /\ tOut.tokens[i].value = Some("B")
          /\ tOut.tokens[i + 1].system = Some("sys") /\ tOut.tokens[i + 1].value = Some("ABC")

----------------------------------------------------------------------------
(* Conditions on the token column *)

\* the parameter of the filter compiles
Compiles(rt, param) == compiled(rt, param) # Thrown

\* the filter value is true or false, in any case of the letters
IsTrueOrFalse(value) == toLowerCase(value) \in {<<"true">>, <<"false">>}

\* C20: for a parameter that compiles, TokenTable.buildWhere fails with the
\* OperationOutcomeError of a bad request exactly when the operator is MISSING or
\* PRESENT and the value is neither true nor false (compared without case): true and
\* false never fail, and no other operator raises this error.
C20_BadRequestOnlyForMissingPresent ==
    (wOut.done /\ Compiles(wIn.rt, wIn.param)) =>
        /\ (wOut.error = "badRequest") =
              (/\ wIn.filter.operator \in {"MISSING", "PRESENT"}
               /\ ~IsTrueOrFalse(wIn.filter.value))
        /\ wOut.ok = (wOut.error = "none")
        /\ wOut.error # "Error"

\* PRESENT with the value a failed with the bad request
C20_Witness ==
    /\ wOut.done /\ Compiles(wIn.rt, wIn.param)
    /\ wIn.filter.operator = "PRESENT" /\ wIn.filter.value = <<"a">>
    /\ wOut.error = "badRequest"

\* MISSING with the value TRUE did not fail
C20_UpperCaseWitness ==
    /\ wOut.done /\ Compiles(wIn.rt, wIn.param)
    /\ wIn.filter.operator = "MISSING" /\ wIn.filter.value = <<"TRUE">>
    /\ wOut.ok

\* the tokens a row can hold: of the code of the filter and of another code, with a
\* system, a longer system that ends alike, a system in another case, or none
RowTokens ==
    { [code |-> c, system |-> s, value |-> v] :
        c \in {wIn.filter.code, <<"other">>},
        s \in {<<"sys">>, <<"a", "sys">>, <<"B">>, <<"b">>, <<>>},
        v \in {<<"a">>, <<"B">>, <<"b">>} }

\* the rows of no token and of one token
TokenRows == {<<>>} \cup {<<t>> : t \in RowTokens}

\* one value, with no comma
OneValue(value) == \A i \in 1..Len(value) : value[i] # ","

HasBar(value) == \E i \in 1..Len(value) : value[i] = "|"

NoBlank(value) == \A i \in 1..Len(value) : value[i] # " "

\* the system and the value asked for by system|value, |value or value
AskedSystem(value) == IF HasBar(value) THEN splitN2(value)[1] ELSE <<>>

AskedValue(value) == IF HasBar(value) THEN splitN2(value)[2] ELSE value

CaseSensitivePlan == isCaseSensitiveSearchParameter(cache, wIn.param, wIn.rt).value

\* C15 (as claimed): for the operator IN on a token parameter with code c and the
\* ValueSet reference u, the condition holds exactly for the rows that have an entry
\* for code c whose system is a member of the reference set of the ValueSet with url
\* u, for every parameter code c.
C15_InValueSetOfTheCode ==
    (/\ wOut.done /\ wOut.ok /\ wIn.filter.operator = "IN"
     /\ OneValue(wIn.filter.value) /\ ~HasBar(wIn.filter.value))
    => \A row \in TokenRows :
          Holds(wOut.expr, encodeTokens(row)) =
             (\E i \in 1..Len(row) :
                 /\ row[i].code = wIn.filter.code
                 /\ row[i].system \in ValueSetReference(wIn.filter.value))

\* the part of C15 that holds: the parameter with the code 'code'
C15_InValueSetOfCode ==
    (/\ wOut.done /\ wOut.ok /\ wIn.filter.operator = "IN"
     /\ wIn.filter.code = <<"code">>
     /\ OneValue(wIn.filter.value) /\ ~HasBar(wIn.filter.value))
    => \A row \in TokenRows :
          Holds(wOut.expr, encodeTokens(row)) =
             (\E i \in 1..Len(row) :
                 /\ row[i].code = wIn.filter.code
                 /\ row[i].system \in ValueSetReference(wIn.filter.value))

\* what TokenTable.buildWhere returns for the filter with the operator IN
ExpressionOfIn ==
    buildWhere(cache, wIn.rt, wIn.rt, wIn.param, [wIn.filter EXCEPT !.operator = "IN"]).expr

\* C16 (as claimed): for the operator NOT_IN and the ValueSet reference u,
\* TokenTable.buildWhere returns a condition built from the ValueSet membership
\* subquery of the operator IN with the same reference: that condition or its negation.
C16_NotInUsesTheSubquery ==
    (/\ wOut.done /\ wOut.ok /\ wIn.filter.operator = "NOT_IN"
     /\ OneValue(wIn.filter.value) /\ ~HasBar(wIn.filter.value))
    => wOut.expr \in {ExpressionOfIn, Negation(ExpressionOfIn)}

\* C17 (as claimed): for an equality filter system|value or value on a case-insensitive
\* plan, the condition matches an entry of the code if and only if the entry's system
\* is the one asked for (when one is asked for) and the lower-cased value of the entry
\* is the lower-cased value asked for, whatever characters that value contains.
C17_CaseInsensitiveEquality ==
    (/\ wOut.done /\ wOut.ok /\ wIn.filter.operator = "EQUALS" /\ ~CaseSensitivePlan
     /\ OneValue(wIn.filter.value) /\ NoBlank(wIn.filter.value)
     /\ AskedValue(wIn.filter.value) # <<>>)
    => \A t \in RowTokens :
          t.code = wIn.filter.code =>
             Holds(wOut.expr, encodeTokens(<<t>>)) =
                (/\ AskedSystem(wIn.filter.value) # <<>>
                       => t.system = AskedSystem(wIn.filter.value)
                 /\ toLowerCase(t.value) = toLowerCase(AskedValue(wIn.filter.value)))

\* C18 (as claimed): for an equality filter system|value with the code c on a
\* case-sensitive plan, the condition requires the column to hold the entry
\* c DELIM system DELIM value of exactly that system and value; |value requires the
\* system slot to hold the null sentinel.
C18_CaseSensitiveEquality ==
    (/\ wOut.done /\ wOut.ok /\ wIn.filter.operator = "EQUALS" /\ CaseSensitivePlan
     /\ OneValue(wIn.filter.value) /\ NoBlank(wIn.filter.value)
     /\ HasBar(wIn.filter.value) /\ AskedValue(wIn.filter.value) # <<>>)
    => \A row \in TokenRows :
          Holds(wOut.expr, encodeTokens(row)) =
             (\E i \in 1..Len(row) :
                 encodeTokens(row)[i] =
                    wIn.filter.code \o <<DELIM>>
                       \o (IF AskedSystem(wIn.filter.value) = <<>> THEN <<NULL_SYSTEM>>
                           ELSE AskedSystem(wIn.filter.value))
                       \o <<DELIM>> \o AskedValue(wIn.filter.value))

\* the entries of the row that is sorted, as stored
TheRow == [i \in 1..Len(wIn.row) |-> wIn.row[i].entry]

\* the positions of the entries of the sort code
OfSortCode == {i \in 1..Len(wIn.row) : wIn.row[i].code = wIn.sortRule.code}

FirstOfSortCode == CHOOSE i \in OfSortCode : \A j \in OfSortCode : i <= j

\* C19 (as claimed): for a sort rule with the code c, TokenTable.addOrderBy orders a
\* resource by the value of the first entry of the resource whose code is c, whatever
\* the system slot of that entry holds (a system, nothing, or the null sentinel).
C19_SortsByFirstEntryOfCode ==
    (wOut.done /\ OfSortCode # {}) =>
        /\ Len(wOut.orderBys) = 1
        /\ wOut.orderBys[1].descending = wIn.sortRule.descending
        /\ sortValue(wOut.orderBys[1], TheRow) = wIn.row[FirstOfSortCode].value

\* the part of C19 that holds: the entries of the code have nothing in the system slot
C19_SortsByFirstEntryWithoutSystem ==
    (wOut.done /\ OfSortCode # {} /\ \A i \in OfSortCode : wIn.row[i].slot = <<>>) =>
        /\ Len(wOut.orderBys) = 1
        /\ wOut.orderBys[1].descending = wIn.sortRule.descending
        /\ sortValue(wOut.orderBys[1], TheRow) = wIn.row[FirstOfSortCode].value

----------------------------------------------------------------------------
(* The dateTime extension *)

\* the retained clauses whose flattened path ends in extension.valueDateTime
DateTimeExtensionClauses ==
    {i \in RetainedClauses :
        EndsWith(KeptNames(TheParam.expression[i].steps), <<"extension", "valueDateTime">>)}

\* C23 (as claimed): a parameter with a retained clause whose flattened path ends in
\* extension.valueDateTime compiles to array = false, whatever the other clauses of
\* the expression are and wherever the clause stands among them.
C23_DateTimeExtensionIsNoArray ==
    (cOut.done /\ cOut.ok /\ DateTimeExtensionClauses # {})
    => cOut.plan.array = FALSE

\* the part of C23 that holds: the clause of the dateTime extension is the last of
\* the retained clauses
C23_LastDateTimeExtensionIsNoArray ==
    (/\ cOut.done /\ cOut.ok
     /\ \E i \in DateTimeExtensionClauses : \A j \in RetainedClauses : j <= i)
    => cOut.plan.array = FALSE

----------------------------------------------------------------------------
(* The life of a cache entry *)

\* the cache c has an entry for the pair (resourceType, code)
HasEntry(c, resourceType, code) == \E e \in c : e.rt = resourceType /\ e.code = code

\* C21: the entry of (resourceType, code) is written by the first call of
\* getSearchParameterDetails for the pair that returns a plan, and it is that plan;
\* every later call, for this or another pair, leaves every entry there is in the
\* cache as it is: a call only ever adds the entry of its own pair.
C21_CacheLifecycle ==
    [][/\ \A e \in cache : e \in cache'
       /\ (IsPlan(call'.result) /\ ~HasEntry(cache, call'.rt, call'.param.code))
            => cache' = cache \cup {[rt |-> call'.rt, code |-> call'.param.code,
                                     plan |-> call'.result]}
       /\ (~IsPlan(call'.result) \/ HasEntry(cache, call'.rt, call'.param.code))
            => cache' = cache]_vars

\* an entry was written by a first call, calls for other pairs and a second call for
\* the pair followed, and the entry is still the plan the first call stored
C21_Witness ==
    /\ first # Idle /\ first.again /\ IsPlan(first.result)
    /\ call # Idle /\ ~call.hit /\ IsPlan(call.result)
    /\ <<call.rt, call.param.code>> # <<first.rt, first.param.code>>
    /\ [rt |-> first.rt, code |-> first.param.code, plan |-> first.result] \in cache
    /\ Cardinality(cache) >= 3

----------------------------------------------------------------------------
(* Callers that race for one pair *)

\* C22: of the callers that race for a pair (resourceType, code), the first to complete
\* writes the entry of the pair, no caller that completes later replaces it, and every
\* caller that has completed with a plan holds the plan that is in the cache for its
\* pair, at every moment from its completion on.
C22_FirstCompletedIsKept ==
    \A i \in DOMAIN call :
        (call[i].done /\ IsPlan(call[i].result))
        => /\ [rt |-> call[i].rt, code |-> call[i].param.code, plan |-> call[i].result]
                 \in cache
           /\ \A e \in cache :
                 (e.rt = call[i].rt /\ e.code = call[i].param.code)
                 => e.plan = call[i].result

\* two callers with definitions of the same code that compile to different plans have
\* completed for the same resource type
C22_Witness ==
    \E i, j \in DOMAIN call :
        /\ i # j /\ call[i].done /\ call[j].done
        /\ call[i].rt = call[j].rt /\ call[i].param.code = call[j].param.code
        /\ IsPlan(compiled(call[i].rt, call[i].param))
        /\ IsPlan(compiled(call[j].rt, call[j].param))
        /\ compiled(call[i].rt, call[i].param) # compiled(call[j].rt, call[j].param)
        /\ call[i].result = call[j].result

----------------------------------------------------------------------------
(* A compilation that throws *)

\* the last call has the arguments of the watched call
SameCallAgain ==
    /\ call # Idle /\ first # Idle
    /\ call.rt = first.rt /\ call.param = first.param

\* C30 (as claimed): a call of getSearchParameterDetails whose compilation throws leaves
\* the cache as it was, and a later call with the same resource type and parameter
\* compiles again and throws again, whatever calls came between them.
C30_ThrowWritesNothing ==
    /\ []((SameCallAgain /\ first.result = Thrown)
            => (call.result = Thrown /\ ~call.hit))
    /\ [][call'.result = Thrown => cache' = cache]_vars

\* the parts of C30 that hold: the call that throws leaves the cache as it was, and
\* the later call throws again when the pair has no entry
C30_ThrowLeavesTheCache ==
    /\ []((SameCallAgain /\ first.result = Thrown /\ ~call.hit) => call.result = Thrown)
    /\ [][call'.result = Thrown => cache' = cache]_vars

\* the part of C2 that holds: two calls with the same arguments that both return a plan
\* return equal plans
C2_DeterministicPlans ==
    (SameCallAgain /\ IsPlan(call.result) /\ IsPlan(first.result))
    => call.result = first.result

----------------------------------------------------------------------------
(* Tokens without system and value *)

\* the resource holds a value without system and without value: an Identifier, a
\* ContactPoint or a Coding with both absent or empty, or an empty string
HasEmptyValue(resource) ==
    IF resource.resourceType = "Patient"
    THEN \/ \E i \in 1..Len(resource.identifier) :
               ~Truthy(resource.identifier[i].value.system)
                  /\ ~Truthy(resource.identifier[i].value.value)
         \/ \E i \in 1..Len(resource.telecom) :
               ~Truthy(resource.telecom[i].value.system)
                  /\ ~Truthy(resource.telecom[i].value.value)
         \/ \E i \in 1..Len(resource.name) :
               \E j \in 1..Len(resource.name[i].value.given) :
                  resource.name[i].value.given[j].value = ""
    ELSE \E i \in 1..Len(resource.category) :
            \E j \in 1..Len(resource.category[i].value.coding) :
               ~Truthy(resource.category[i].value.coding[j].system)
                  /\ ~Truthy(resource.category[i].value.coding[j].code)

\* C24: every token of the list getTokens returns has a system that is present and not
\* empty or a value that is present and not empty, whatever the values of the resource
\* are: a candidate with neither is never retained.
C24_SystemOrValue ==
    (tOut.done /\ tOut.op = "getTokens") =>
        \A i \in 1..Len(tOut.tokens) :
            Truthy(tOut.tokens[i].system) \/ Truthy(tOut.tokens[i].value)

\* getTokens has run on a resource with a value without system and value, and with
\* another value that gave a token
C24_Witness ==
    /\ tOut.done /\ tOut.op = "getTokens"
    /\ HasEmptyValue(tIn)
    /\ tOut.tokens # <<>>

\* a token of a system alone is retained
C24_SystemAloneWitness ==
    /\ tOut.done /\ tOut.op = "getTokens"
    /\ \E i \in 1..Len(tOut.tokens) :
          Truthy(tOut.tokens[i].system) /\ ~Truthy(tOut.tokens[i].value)

----------------------------------------------------------------------------
(* Migrations *)

\* the process has read the table and found a row
FoundRow(pr) == pr.before \notin {Unread, NoRow}

\* the process is inside migrate
InMigrate(pr) == pr.pc \in {"migrate", "schema", "record", "data"}

\* runMigrations of the process has returned
Returned(pr) == pr.pc \in {"readonly", "done", "closed"}

\* the stored data version is followed by a data migration that requires another
\* server version than the one of the process
RequiresOtherServer(pr) ==
    /\ FoundRow(pr)
    /\ pr.before.dataVersion + 1 \in 1..MaxDataVersion
    /\ pr.serverVersion # (IF (pr.before.dataVersion + 1) % 2 = 1 THEN "3.0" ELSE "4.0")

\* C25: when the stored dataVersion + 1 is a data migration and the server version is
\* not the one the manifest requires for it, migrate throws before it runs a schema
\* migration and before it starts the data migration: the call has run and written
\* nothing, and the row is the one it read.
C25_MismatchThrowsFirst ==
    \A p \in Servers :
        RequiresOtherServer(proc[p])
        => /\ proc[p].err = "mismatch"
           /\ proc[p].pc \in {"catch", "readonly", "done", "closed"}
           /\ proc[p].log = <<>>
           /\ db.lock = p => db.row = proc[p].before

\* migrate has thrown for the server version while schema migrations were pending
C25_Witness ==
    \E p \in Servers :
        /\ RequiresOtherServer(proc[p])
        /\ proc[p].pc = "catch"
        /\ proc[p].before.version < MaxSchemaVersion

\* C26: a process is inside migrate only while its client holds the advisory lock, so
\* two processes are never inside migrate together; and once runMigrations has
\* returned after the lock was acquired, whether migrate returned or threw, the lock
\* was unlocked exactly once, the client was released exactly once, and the process
\* does not hold the lock.
C26_MigrateUnderLock ==
    /\ \A p \in Servers :
          /\ InMigrate(proc[p]) => (db.lock = p /\ proc[p].client)
          /\ (proc[p].locked /\ Returned(proc[p]))
             => /\ proc[p].unlocks = 1
                /\ proc[p].releases = 1
                /\ ~proc[p].client
                /\ db.lock # p
    /\ \A p, q \in Servers : (InMigrate(proc[p]) /\ InMigrate(proc[q])) => p = q

\* both processes have held the lock and returned, one after migrate threw and one
\* after migrate returned
C26_Witness ==
    \E p, q \in Servers :
        /\ proc[p].locked /\ Returned(proc[p]) /\ proc[p].err = "schema"
        /\ proc[q].locked /\ Returned(proc[q]) /\ proc[q].err = "none"

\* one process is inside migrate while the other waits for the lock
C26_WaitingWitness ==
    \E p, q \in Servers : InMigrate(proc[p]) /\ proc[q].pc = "lock"

\* the positions of the log of a process at which a data migration was started
DataStarts(pr) == {k \in 1..Len(pr.log) : pr.log[k][1] = "data"}

\* the schema version the call of migrate started from
StartVersion(pr) == IF pr.before = NoRow THEN 0 ELSE pr.before.version

\* C27: within one call of migrate, the data migration is started only after every
\* pending schema migration has run and its version has been written; at most one data
\* migration is started, the one of the stored dataVersion + 1; and on a database
\* without a row no data migration is started and dataVersion is set to the latest
\* data version.
C27_DataAfterSchema ==
    \A p \in Servers :
        /\ Cardinality(DataStarts(proc[p])) <= 1
        /\ \A k \in DataStarts(proc[p]) :
              /\ FoundRow(proc[p])
              /\ proc[p].log[k][2] = proc[p].before.dataVersion + 1
              /\ \A v \in (StartVersion(proc[p]) + 1)..MaxSchemaVersion :
                    \E a \in 1..(k - 2) :
                        /\ proc[p].log[a] = <<"run", v>>
                        /\ proc[p].log[a + 1] = <<"version", v>>
        /\ proc[p].before = NoRow
           => /\ DataStarts(proc[p]) = {}
              /\ proc[p].pendingDataMigration = 0
              /\ db.row # NoRow
              /\ db.row.dataVersion = MaxDataVersion

\* a data migration was started after all the schema migrations of the server
C27_Witness ==
    \E p \in Servers :
        /\ DataStarts(proc[p]) # {}
        /\ StartVersion(proc[p]) = 0
        /\ proc[p].pc = "finally"

\* migrate has returned on a database without a row
C27_FreshWitness ==
    \E p \in Servers :
        /\ proc[p].before = NoRow
        /\ proc[p].pc = "finally"
        /\ Len(proc[p].log) = 1 + 2 * MaxSchemaVersion

\* the schema migrations the call has run or tried to run, in order
Attempts(pr) == SelectSeq(pr.log, LAMBDA e : e[1] \in {"run", "failed"})

\* C28: migrate runs the schema migrations in increasing order of version from the
\* stored version + 1 on, one version after the other; it writes version i only
\* directly after migration i has run; it runs no migration of a version that is at
\* most the stored version; and when it has completed without error the stored
\* version is the highest schema migration version.
C28_SchemaOrder ==
    \A p \in Servers :
        /\ \A k \in 1..Len(Attempts(proc[p])) :
              Attempts(proc[p])[k][2] = StartVersion(proc[p]) + k
        /\ \A k \in 1..Len(proc[p].log) :
              proc[p].log[k][1] = "version"
              => /\ k > 1
                 /\ proc[p].log[k - 1] = <<"run", proc[p].log[k][2]>>
                 /\ db.row.version >= proc[p].log[k][2]
        /\ (proc[p].pc = "record" /\ db.lock = p) => db.row.version = proc[p].i - 1
        /\ (proc[p].locked /\ proc[p].err = "none"
              /\ proc[p].pc \in {"finally", "readonly", "done", "closed"})
           => db.row.version = MaxSchemaVersion

\* migrate has completed after running every schema migration of the server on a
\* database whose stored version was 0
C28_Witness ==
    \E p \in Servers :
        /\ FoundRow(proc[p]) /\ proc[p].before.version = 0
        /\ proc[p].pc = "finally"
        /\ Len(Attempts(proc[p])) = MaxSchemaVersion
        /\ MaxSchemaVersion >= 2

\* migrate threw: a schema migration failed or the server version is not the required
MigrationError(pr) == pr.err \in {"schema", "mismatch"}

\* the error stays inside runMigrations and the stored version is the one of the last
\* migration that completed
ErrorIsCaught(p) ==
    MigrationError(proc[p])
    => /\ proc[p].pc \in {"catch", "readonly", "done", "closed"}
       /\ proc[p].pc \in {"readonly", "done"} => proc[p].pool
       /\ (proc[p].err = "schema" /\ db.lock = p)
          => /\ db.row.version = proc[p].i - 1
             /\ proc[p].log[Len(proc[p].log)] = <<"failed", proc[p].i>>
       /\ (proc[p].err = "mismatch" /\ db.lock = p) => db.row = proc[p].before

\* getDatabasePool was called after initDatabase returned, and closeDatabase has not
\* been called
CalledWhenDone(pr) == pr.pc = "done" /\ pr.got # <<>>

\* C29 (as claimed): an error thrown while migrating is caught inside runMigrations:
\* initDatabase returns, the writer pool is set, every call of getDatabasePool after
\* it returns the writer pool, and the stored schema version is the one of the last
\* migration that completed.
C29_AsClaimed ==
    \A p \in Servers :
        /\ ErrorIsCaught(p)
        /\ (MigrationError(proc[p]) /\ CalledWhenDone(proc[p]))
           => proc[p].got[1].result = "pool"

\* C29 (amended): an error thrown while migrating is caught inside runMigrations:
\* initDatabase returns, the writer pool is set, getDatabasePool(WRITER) returns it
\* afterwards, getDatabasePool(READER) returns it unless a read-only database is
\* configured, in which case it returns the read-only pool, and the stored schema
\* version is the one of the last migration that completed.
C29_ErrorIsCaught ==
    \A p \in Servers :
        /\ ErrorIsCaught(p)
        /\ (MigrationError(proc[p]) /\ CalledWhenDone(proc[p]))
           => proc[p].got[1].result =
                 IF proc[p].got[1].mode = "reader" /\ proc[p].readonlyPool
                 THEN "readonlyPool" ELSE "pool"

\* after a failing schema migration initDatabase has returned and the pool of the
\* writer was asked for and returned
C29_Witness ==
    \E p \in Servers :
        /\ proc[p].err = "schema" /\ proc[p].pc = "done"
        /\ Len(proc[p].log) >= 3
        /\ CalledWhenDone(proc[p]) /\ proc[p].got[1].mode = "writer"
        /\ proc[p].got[1].result = "pool"

\* ... and the pool of a reader, with a read-only database
C29_ReaderWitness ==
    \E p \in Servers :
        /\ proc[p].err = "mismatch" /\ proc[p].pc = "done"
        /\ CalledWhenDone(proc[p]) /\ proc[p].got[1].mode = "reader"
        /\ proc[p].got[1].result = "readonlyPool"

====
